---- MODULE Spec2Model ----
(***************************************************************************)
(* A model of sampan's template engine: the tornado-style compiler of      *)
(* sampan/template.py (reader, parser, code generation, loaders) and the   *)
(* regex-driven draft of sampan/templateNG.py.                             *)
(*                                                                         *)
(* A template text is the sequence of its characters.                      *)
(***************************************************************************)
EXTENDS Integers, Sequences, FiniteSets, TLC

\* Python's None.
None == "<None>"

\* None where a string (a sequence of symbols) is expected.
NoneStr == <<None>>

\* The characters str.strip() removes (the ones the alphabet has).
Whitespace == {" ", "\n"}

(***************************************************************************)
(* Strings.  A Python str is the sequence of its characters; the words of  *)
(* the template language are spelled out, so that a scan over a text sees  *)
(* every letter.                                                           *)
(***************************************************************************)

\* The words this module writes by name.
Words ==
    {"if", "elif", "else", "for", "while", "try",
     "except", "finally", "block", "apply", "break", "continue",
     "end", "extends", "include", "set", "import", "from",
     "comment", "auto_escape", "autoescape", "raw", "module", "in",
     "xs", "None", "html_escape", "escape", "url_escape", "url_quote",
     "json_encode", "squeeze",
     "tt_str", "datetime"}

\* The characters of a word; a single character is itself.
Spell(w) ==
    CASE w = "if"           -> <<"i", "f">>
      [] w = "elif"         -> <<"e", "l", "i", "f">>
      [] w = "else"         -> <<"e", "l", "s", "e">>
      [] w = "for"          -> <<"f", "o", "r">>
      [] w = "while"        -> <<"w", "h", "i", "l", "e">>
      [] w = "try"          -> <<"t", "r", "y">>
      [] w = "except"       -> <<"e", "x", "c", "e", "p", "t">>
      [] w = "finally"      -> <<"f", "i", "n", "a", "l", "l", "y">>
      [] w = "block"        -> <<"b", "l", "o", "c", "k">>
      [] w = "apply"        -> <<"a", "p", "p", "l", "y">>
      [] w = "break"        -> <<"b", "r", "e", "a", "k">>
      [] w = "continue"     -> <<"c", "o", "n", "t", "i", "n", "u", "e">>
      [] w = "end"          -> <<"e", "n", "d">>
      [] w = "extends"      -> <<"e", "x", "t", "e", "n", "d", "s">>
      [] w = "include"      -> <<"i", "n", "c", "l", "u", "d", "e">>
      [] w = "set"          -> <<"s", "e", "t">>
      [] w = "import"       -> <<"i", "m", "p", "o", "r", "t">>
      [] w = "from"         -> <<"f", "r", "o", "m">>
      [] w = "comment"      -> <<"c", "o", "m", "m", "e", "n", "t">>
      [] w = "auto_escape"  -> <<"a", "u", "t", "o", "_", "e", "s", "c", "a", "p", "e">>
      [] w = "autoescape"   -> <<"a", "u", "t", "o", "e", "s", "c", "a", "p", "e">>
      [] w = "raw"          -> <<"r", "a", "w">>
      [] w = "module"       -> <<"m", "o", "d", "u", "l", "e">>
      [] w = "in"           -> <<"i", "n">>
      [] w = "xs"           -> <<"x", "s">>
      [] w = "None"         -> <<"N", "o", "n", "e">>
      [] w = "html_escape"  -> <<"h", "t", "m", "l", "_", "e", "s", "c", "a", "p", "e">>
      [] w = "escape"       -> <<"e", "s", "c", "a", "p", "e">>
      [] w = "url_escape"   -> <<"u", "r", "l", "_", "e", "s", "c", "a", "p", "e">>
      [] w = "url_quote"    -> <<"u", "r", "l", "_", "q", "u", "o", "t", "e">>
      [] w = "json_encode"  -> <<"j", "s", "o", "n", "_", "e", "n", "c", "o", "d", "e">>
      [] w = "squeeze"      -> <<"s", "q", "u", "e", "e", "z", "e">>
      [] w = "tt_str"       -> <<"t", "t", "_", "s", "t", "r">>
      [] w = "datetime"     -> <<"d", "a", "t", "e", "t", "i", "m", "e">>
      [] OTHER               -> <<w>>

\* The word a string spells, "<other>" when it is none of Words.
Word(chars) ==
    IF \E w \in Words : Spell(w) = chars
    THEN CHOOSE w \in Words : Spell(w) = chars
    ELSE "<other>"

\* The string of several words and characters in a row.
RECURSIVE Chars(_)
Chars(ws) == IF ws = <<>> THEN <<>> ELSE Spell(Head(ws)) \o Chars(Tail(ws))

(***************************************************************************)
(* sampan/template.py: _TemplateReader                                     *)
(***************************************************************************)

\* text[a:b] of a Python string, 0-based and half-open.
Slice(text, a, b) == SubSeq(text, a + 1, b)

\* reader[key] for key >= 0: self.text[self.pos + key]
ReaderAt(text, pos, key) == text[pos + key + 1]

\* str.find(needle, i): the first index >= i where needle starts, or -1.
RECURSIVE StrFind(_, _, _)
StrFind(text, needle, i) ==
    IF i + Len(needle) > Len(text) THEN -1
    ELSE IF SubSeq(text, i + 1, i + Len(needle)) = needle THEN i
    ELSE StrFind(text, needle, i + 1)

\* _TemplateReader.find(needle, start): relative to the cursor.
find(text, pos, needle, start) ==
    LET index == StrFind(text, needle, start + pos)
    IN  IF index # -1 THEN index - pos ELSE -1

\* _TemplateReader.remaining()
remaining(text, pos) == Len(text) - pos

\* str.count('\n', a, b)
RECURSIVE CountNewlines(_, _, _)
CountNewlines(text, a, b) ==
    IF a >= b \/ a >= Len(text) THEN 0
    ELSE (IF text[a + 1] = "\n" THEN 1 ELSE 0) + CountNewlines(text, a + 1, b)

\* _TemplateReader(text): pos 0, line 1.  The template's auto_escape slot,
\* which the parser writes, travels with the reader, and so does the record
\* of the cursors its consume calls have left, in the order of the calls.
TemplateReader(ae) == [pos |-> 0, line |-> 1, ae |-> ae, seen |-> <<>>]

\* consume that leaves the line number as it is
consume_same_line(text, rd, count) ==
    [pos  |-> rd.pos + count,
     line |-> rd.line,
     ae   |-> rd.ae,
     seen |-> Append(rd.seen, [pos |-> rd.pos + count, line |-> rd.line])]

\* _TemplateReader.consume(count): the reader after it (the consumed string is
\* Slice(text, rd.pos, rd.pos + count)).
consume(text, rd, count) ==
    [pos  |-> rd.pos + count,
     line |-> rd.line + CountNewlines(text, rd.pos, rd.pos + count),
     ae   |-> rd.ae,
     seen |-> Append(rd.seen,
                     [pos  |-> rd.pos + count,
                      line |-> rd.line + CountNewlines(text, rd.pos, rd.pos + count)])]

\* str.strip()
RECURSIVE LStrip(_)
LStrip(s) == IF s # <<>> /\ Head(s) \in Whitespace THEN LStrip(Tail(s)) ELSE s

RECURSIVE RStrip(_)
RStrip(s) ==
    IF s # <<>> /\ s[Len(s)] \in Whitespace THEN RStrip(SubSeq(s, 1, Len(s) - 1)) ELSE s

strip(s) == RStrip(LStrip(s))

\* str.strip(c) for one character c.
RECURSIVE StripChar(_, _)
StripChar(s, c) ==
    IF s # <<>> /\ Head(s) = c THEN StripChar(Tail(s), c)
    ELSE IF s # <<>> /\ s[Len(s)] = c THEN StripChar(SubSeq(s, 1, Len(s) - 1), c)
    ELSE s

\* suffix.strip('"').strip("'") of a file name.
StripQuotes(s) == StripChar(StripChar(s, "\""), "'")

\* contents.partition(' '): the part before the first space, and the part after it.
RECURSIVE PartitionAt(_, _)
PartitionAt(s, i) ==
    IF i > Len(s) THEN [operator |-> s, suffix |-> <<>>]
    ELSE IF s[i] = " " THEN [operator |-> SubSeq(s, 1, i - 1), suffix |-> SubSeq(s, i + 1, Len(s))]
    ELSE PartitionAt(s, i + 1)

partition(s) == PartitionAt(s, 1)

(***************************************************************************)
(* sampan/template.py: the nodes the parser builds                         *)
(***************************************************************************)
Chunk(kind, s, raw, body) == [k |-> kind, s |-> s, raw |-> raw, body |-> body]

Text(value)                 == Chunk("_Text", value, FALSE, <<>>)
Expression(expression, raw) == Chunk("_Expression", expression, raw, <<>>)
Module(expression)          == Chunk("_Module", expression, TRUE, <<>>)
Statement(statement)        == Chunk("_Statement", statement, FALSE, <<>>)
IntermediateControlBlock(statement) == Chunk("_IntermediateControlBlock", statement, FALSE, <<>>)
ControlBlock(statement, body)       == Chunk("_ControlBlock", statement, FALSE, body)
NamedBlock(name, body)      == Chunk("_NamedBlock", name, FALSE, body)
ApplyBlock(method, body)    == Chunk("_ApplyBlock", method, FALSE, body)
ExtendsBlock(name)          == Chunk("_ExtendsBlock", name, FALSE, <<>>)
IncludeBlock(name)          == Chunk("_IncludeBlock", name, FALSE, <<>>)

(***************************************************************************)
(* sampan/template.py: _parse                                              *)
(***************************************************************************)

\* raise TemplateError(msg, template.name, reader.line)
Raise(msg, rd) ==
    [err |-> "TemplateError", msg |-> msg, chunks |-> <<>>,
     pos |-> rd.pos, line |-> rd.line, ae |-> rd.ae, seen |-> rd.seen]

\* return body
Return(body, rd) ==
    [err |-> "", msg |-> "", chunks |-> body,
     pos |-> rd.pos, line |-> rd.line, ae |-> rd.ae, seen |-> rd.seen]

\* The reader a nested _parse call left behind.
ReaderOf(res) == [pos |-> res.pos, line |-> res.line, ae |-> res.ae, seen |-> res.seen]

\* The scan for the next directive: the offset of its '{', or -1 at the end of
\* the text.
RECURSIVE FindCurly(_, _, _)
FindCurly(text, pos, from) ==
    LET curly == find(text, pos, <<"{">>, from)
    IN  IF curly = -1 \/ curly + 1 = remaining(text, pos) THEN -1
        ELSE IF ReaderAt(text, pos, curly + 1) \notin {"{", "%", "#"}
             THEN FindCurly(text, pos, curly + 1)
        ELSE IF /\ curly + 2 < remaining(text, pos)
                /\ ReaderAt(text, pos, curly + 1) = "{"
                /\ ReaderAt(text, pos, curly + 2) = "{"
             THEN FindCurly(text, pos, curly + 1)
        ELSE curly

\* intermediate_blocks with an else that loops do not take
intermediate_blocks_if_try ==
    [else    |-> {"if", "try"},
     elif    |-> {"if"},
     except  |-> {"try"},
     finally |-> {"try"}]

\* intermediate_blocks: the parents each intermediate operator may continue.
intermediate_blocks ==
    [else    |-> {"if", "for", "while", "try"},
     elif    |-> {"if"},
     except  |-> {"try"},
     finally |-> {"try"}]

InlineOperators ==
    {"extends", "include", "set", "import", "from", "comment", "auto_escape", "raw", "module"}

BlockOperators == {"apply", "block", "try", "if", "for", "while"}

\* in_loop as the recursive call for a block receives it.
InnerLoop(operator, in_loop) ==
    IF operator \in {"for", "while"} THEN operator
    ELSE IF operator = "apply" THEN None
    ELSE in_loop

RECURSIVE _parse(_, _, _, _, _)

\* The body of the loop for a {% ... %} directive, from the operator on: rd is
\* the reader after the closing %}, contents the stripped text between the
\* braces, operator and suffix the two sides of contents.partition(' ').
_parse_block(text, rd, in_block, in_loop, body, contents, operator, suffix) ==
    IF contents = <<>> THEN Raise("Empty block tag ({% %})", rd)
    ELSE IF operator \in DOMAIN intermediate_blocks
    THEN IF in_block = None THEN Raise("<operator> outside <allowed_parents> block", rd)
         ELSE IF in_block \notin intermediate_blocks[operator]
              THEN Raise("<operator> block cannot be attached to <in_block> block", rd)
         ELSE _parse(text, rd, in_block, in_loop,
                    Append(body, IntermediateControlBlock(contents)))
    ELSE IF operator = "end"
    THEN IF in_block = None THEN Raise("Extra {% end %} block", rd)
         ELSE Return(body, rd)
    ELSE IF operator \in InlineOperators
    THEN IF operator = "comment" THEN _parse(text, rd, in_block, in_loop, body)
         ELSE IF operator = "extends"
         THEN IF StripQuotes(suffix) = <<>> THEN Raise("extends missing file path", rd)
              ELSE _parse(text, rd, in_block, in_loop,
                         Append(body, ExtendsBlock(StripQuotes(suffix))))
         ELSE IF operator \in {"import", "from"}
         THEN IF suffix = <<>> THEN Raise("import missing statement", rd)
              ELSE _parse(text, rd, in_block, in_loop, Append(body, Statement(contents)))
         ELSE IF operator = "include"
         THEN IF StripQuotes(suffix) = <<>> THEN Raise("include missing file path", rd)
              ELSE _parse(text, rd, in_block, in_loop,
                         Append(body, IncludeBlock(StripQuotes(suffix))))
         ELSE IF operator = "set"
         THEN IF suffix = <<>> THEN Raise("set missing statement", rd)
              ELSE _parse(text, rd, in_block, in_loop, Append(body, Statement(suffix)))
         ELSE IF operator = "auto_escape"
         THEN LET fn == IF suffix = Spell("None") THEN NoneStr ELSE suffix
              IN  _parse(text, [rd EXCEPT !.ae = fn], in_block, in_loop, body)
         ELSE IF operator = "raw"
         THEN _parse(text, rd, in_block, in_loop, Append(body, Expression(suffix, TRUE)))
         ELSE _parse(text, rd, in_block, in_loop, Append(body, Module(suffix)))
    ELSE IF operator \in BlockOperators
    THEN LET inner == _parse(text, rd, operator, InnerLoop(operator, in_loop), <<>>)
         IN  IF inner.err # "" THEN inner
             ELSE IF operator = "apply"
             THEN IF suffix = <<>> THEN Raise("apply missing method name", ReaderOf(inner))
                  ELSE _parse(text, ReaderOf(inner), in_block, in_loop,
                             Append(body, ApplyBlock(suffix, inner.chunks)))
             ELSE IF operator = "block"
             THEN IF suffix = <<>> THEN Raise("block missing name", ReaderOf(inner))
                  ELSE _parse(text, ReaderOf(inner), in_block, in_loop,
                             Append(body, NamedBlock(suffix, inner.chunks)))
             ELSE _parse(text, ReaderOf(inner), in_block, in_loop,
                        Append(body, ControlBlock(contents, inner.chunks)))
    ELSE IF operator \in {"break", "continue"}
    THEN IF in_loop = None THEN Raise("<operator> outside for, while block", rd)
         ELSE _parse(text, rd, in_block, in_loop, Append(body, Statement(contents)))
    ELSE Raise("unknown operator", rd)

\* _parse_tag that keeps the text of a {# #} comment
_parse_tag_comment_kept(text, rd, in_block, in_loop, body, start_brace) ==
    IF remaining(text, rd.pos) > 0 /\ ReaderAt(text, rd.pos, 0) = "!"
    THEN _parse(text, consume(text, rd, 1), in_block, in_loop, Append(body, Text(start_brace)))
    ELSE IF start_brace = <<"{", "#">>
    THEN LET end == find(text, rd.pos, <<"#", "}">>, 0)
         IN  IF end = -1 THEN Raise("Missing end comment #}", rd)
             ELSE _parse(text, consume(text, consume(text, rd, end), 2), in_block, in_loop,
                         Append(body, Text(Slice(text, rd.pos, rd.pos + end))))
    ELSE IF start_brace = <<"{", "{">>
    THEN LET end == find(text, rd.pos, <<"}", "}">>, 0)
         IN  IF end = -1 THEN Raise("Missing end expression }}", rd)
             ELSE LET contents == strip(Slice(text, rd.pos, rd.pos + end))
                  IN  IF contents = <<>>
                      THEN Raise("Empty expression", consume(text, consume(text, rd, end), 2))
                      ELSE _parse(text, consume(text, consume(text, rd, end), 2),
                                 in_block, in_loop,
                                 Append(body, Expression(contents, FALSE)))
    ELSE
    LET end == find(text, rd.pos, <<"%", "}">>, 0)
    IN  IF end = -1 THEN Raise("Missing end block %}", rd)
        ELSE LET contents == strip(Slice(text, rd.pos, rd.pos + end))
             IN  _parse_block(text, consume(text, consume(text, rd, end), 2),
                              in_block, in_loop, body, contents,
                              Word(partition(contents).operator),
                              strip(partition(contents).suffix))

\* _parse_tag that keeps the '!' of an escaped brace
_parse_tag_bang_kept(text, rd, in_block, in_loop, body, start_brace) ==
    IF remaining(text, rd.pos) > 0 /\ ReaderAt(text, rd.pos, 0) = "!"
    THEN _parse(text, consume(text, rd, 1), in_block, in_loop,
               Append(body, Text(Append(start_brace, "!"))))
    ELSE IF start_brace = <<"{", "#">>
    THEN LET end == find(text, rd.pos, <<"#", "}">>, 0)
         IN  IF end = -1 THEN Raise("Missing end comment #}", rd)
             ELSE _parse(text, consume(text, consume(text, rd, end), 2), in_block, in_loop, body)
    ELSE IF start_brace = <<"{", "{">>
    THEN LET end == find(text, rd.pos, <<"}", "}">>, 0)
         IN  IF end = -1 THEN Raise("Missing end expression }}", rd)
             ELSE LET contents == strip(Slice(text, rd.pos, rd.pos + end))
                  IN  IF contents = <<>>
                      THEN Raise("Empty expression", consume(text, consume(text, rd, end), 2))
                      ELSE _parse(text, consume(text, consume(text, rd, end), 2),
                                 in_block, in_loop,
                                 Append(body, Expression(contents, FALSE)))
    ELSE
    LET end == find(text, rd.pos, <<"%", "}">>, 0)
    IN  IF end = -1 THEN Raise("Missing end block %}", rd)
        ELSE LET contents == strip(Slice(text, rd.pos, rd.pos + end))
             IN  _parse_block(text, consume(text, consume(text, rd, end), 2),
                              in_block, in_loop, body, contents,
                              Word(partition(contents).operator),
                              strip(partition(contents).suffix))

\* The body of the loop from the two-character opening brace on: rd is the
\* reader after it, body the chunks with the text before the brace appended.
_parse_tag(text, rd, in_block, in_loop, body, start_brace) ==
    IF remaining(text, rd.pos) > 0 /\ ReaderAt(text, rd.pos, 0) = "!"
    THEN _parse(text, consume(text, rd, 1), in_block, in_loop, Append(body, Text(start_brace)))
    ELSE IF start_brace = <<"{", "#">>
    THEN LET end == find(text, rd.pos, <<"#", "}">>, 0)
         IN  IF end = -1 THEN Raise("Missing end comment #}", rd)
             ELSE _parse(text, consume(text, consume(text, rd, end), 2), in_block, in_loop, body)
    ELSE IF start_brace = <<"{", "{">>
    THEN LET end == find(text, rd.pos, <<"}", "}">>, 0)
         IN  IF end = -1 THEN Raise("Missing end expression }}", rd)
             ELSE LET contents == strip(Slice(text, rd.pos, rd.pos + end))
                  IN  IF contents = <<>>
                      THEN Raise("Empty expression", consume(text, consume(text, rd, end), 2))
                      ELSE _parse(text, consume(text, consume(text, rd, end), 2),
                                 in_block, in_loop,
                                 Append(body, Expression(contents, FALSE)))
    ELSE
    LET end == find(text, rd.pos, <<"%", "}">>, 0)
    IN  IF end = -1 THEN Raise("Missing end block %}", rd)
        ELSE LET contents == strip(Slice(text, rd.pos, rd.pos + end))
             IN  _parse_block(text, consume(text, consume(text, rd, end), 2),
                              in_block, in_loop, body, contents,
                              Word(partition(contents).operator),
                              strip(partition(contents).suffix))

\* _parse(reader, template, in_block, in_loop): the chunks of the body, the
\* reader it leaves and the template's auto_escape, or the TemplateError.
_parse(text, rd0, in_block, in_loop, body0) ==
    LET curly == FindCurly(text, rd0.pos, 0)
    IN
    IF curly = -1
    THEN IF in_block # None
         THEN Raise("Missing end block", rd0)
         ELSE Return(Append(body0, Text(Slice(text, rd0.pos, Len(text)))),
                     consume(text, rd0, remaining(text, rd0.pos)))
    ELSE IF curly > 0
    THEN _parse_tag(text, consume(text, consume(text, rd0, curly), 2), in_block, in_loop,
                    Append(body0, Text(Slice(text, rd0.pos, rd0.pos + curly))),
                    Slice(text, rd0.pos + curly, rd0.pos + curly + 2))
    ELSE _parse_tag(text, consume(text, rd0, 2), in_block, in_loop, body0,
                    Slice(text, rd0.pos, rd0.pos + 2))

(***************************************************************************)
(* sampan/template.py: Template._generate_python and the nodes' generate   *)
(*                                                                         *)
(* The generated Python is modelled as the list of its operations, in      *)
(* program order; a control block holds the operations of its body.        *)
(***************************************************************************)

\* The characters of a Python identifier (the ones the alphabet has).
Letters ==
    {"a", "b", "c", "d", "e", "f", "g", "h", "i", "j", "k", "l", "m", "n", "o", "p",
     "q", "r", "s", "t", "u", "v", "w", "x", "y", "z", "N", "_"}

\* The words Python reserves.
PyKeywords ==
    {"if", "elif", "else", "for", "while", "try", "except", "finally", "break",
     "continue", "import", "from", "in", "None"}

\* A text that is one Python name.  Over the templates written here, an
\* expression that is not a name is not Python at all: it holds a brace, a
\* '!', a '%' or a '#' that nothing closes or continues.
IsName(e) ==
    /\ e # <<>>
    /\ \A i \in 1..Len(e) : e[i] \in Letters
    /\ Word(e) \notin PyKeywords

Op(op, s, fn, body) == [op |-> op, s |-> s, fn |-> fn, body |-> body]

\* A function from names to values with one more entry.
Put(f, key, val) == [n \in DOMAIN f \cup {key} |-> IF n = key THEN val ELSE f[n]]

\* The outcome of a step that can raise.
Failed(cls)  == [err |-> cls, nb |-> <<>>, code |-> <<>>]
Blocks(nb)   == [err |-> "", nb |-> nb, code |-> <<>>]
Code(code)   == [err |-> "", nb |-> <<>>, code |-> code]

\* loader.load(name, parent_name) as _get_ancestors and _IncludeBlock call it.
\* Without a loader the caller holds None: _IncludeBlock dereferences it.  With
\* one, FileLoader.load and StringLoader.load take a single argument, so the
\* call with two raises TypeError before load's body runs.
load_with_parent(has_loader) == IF has_loader THEN "TypeError" ELSE "AttributeError"

\* _Node.find_named_blocks over a chunk list, with the overrides of _NamedBlock,
\* _ExtendsBlock and _IncludeBlock.  tmpl is the template the chunks belong to.
RECURSIVE find_named_blocks(_, _, _, _)
find_named_blocks(chunks, tmpl, has_loader, nb) ==
    IF chunks = <<>> THEN Blocks(nb)
    ELSE LET c == Head(chunks)
         IN  IF c.k = "_NamedBlock"
             THEN LET r == find_named_blocks(c.body, tmpl, has_loader,
                                             Put(nb, c.s, [body |-> c.body, template |-> tmpl]))
                  IN  IF r.err # "" THEN r
                      ELSE find_named_blocks(Tail(chunks), tmpl, has_loader, r.nb)
             ELSE IF c.k \in {"_ControlBlock", "_ApplyBlock"}
             THEN LET r == find_named_blocks(c.body, tmpl, has_loader, nb)
                  IN  IF r.err # "" THEN r
                      ELSE find_named_blocks(Tail(chunks), tmpl, has_loader, r.nb)
             ELSE IF c.k = "_IncludeBlock"
             THEN Failed(load_with_parent(has_loader))
             ELSE find_named_blocks(Tail(chunks), tmpl, has_loader, nb)

\* _Expression.generate without the test of self.raw
ExpressionEscape_of_raw(raw, current_template) == current_template.auto_escape

\* _Expression.generate: the escaping function compiled into the expression,
\* NoneStr when the value is appended as it is.
ExpressionEscape(raw, current_template) ==
    IF ~raw /\ current_template.auto_escape # NoneStr
    THEN current_template.auto_escape
    ELSE NoneStr

\* _ChunkList.generate: each chunk's generate, with writer.current_template.
RECURSIVE generate(_, _, _, _)
generate(chunks, current_template, named_blocks, has_loader) ==
    IF chunks = <<>> THEN Code(<<>>)
    ELSE
    LET c == Head(chunks)
        this ==
            IF c.k = "_Text"
            THEN Code(IF c.s # <<>> THEN <<Op("append", c.s, NoneStr, <<>>)>> ELSE <<>>)
            ELSE IF c.k \in {"_Expression", "_Module"}
            THEN Code(<<Op(IF c.k = "_Module" THEN "module" ELSE "expr", c.s,
                           ExpressionEscape(c.raw, current_template), <<>>)>>)
            ELSE IF c.k = "_Statement"
            THEN Code(<<Op("stmt", c.s, NoneStr, <<>>)>>)
            ELSE IF c.k = "_IntermediateControlBlock"
            THEN Code(<<Op("inter", c.s, NoneStr, <<>>)>>)
            ELSE IF c.k \in {"_ControlBlock", "_ApplyBlock"}
            THEN LET r == generate(c.body, current_template, named_blocks, has_loader)
                 IN  IF r.err # "" THEN r
                     ELSE Code(<<Op(IF c.k = "_ApplyBlock" THEN "apply" ELSE "ctrl",
                                    c.s, NoneStr, r.code)>>)
            ELSE IF c.k = "_NamedBlock"
            THEN LET block == named_blocks[c.s]
                 IN  generate(block.body, block.template, named_blocks, has_loader)
            ELSE IF c.k = "_IncludeBlock"
            THEN Failed(load_with_parent(has_loader))
            ELSE Failed("NotImplementedError")   \* _ExtendsBlock.generate
    IN  IF this.err # "" THEN this
        ELSE LET rest == generate(Tail(chunks), current_template, named_blocks, has_loader)
             IN  IF rest.err # "" THEN rest ELSE Code(this.code \o rest.code)

\* Template._get_ancestors as far as it goes: the file itself when the body
\* has no {% extends %} chunk; otherwise the TemplateError for a missing
\* loader, or the failing loader.load(chunk.name, self.name).
RECURSIVE _get_ancestors(_, _)
_get_ancestors(chunks, has_loader) ==
    IF chunks = <<>> THEN ""
    ELSE IF Head(chunks).k = "_ExtendsBlock"
         THEN IF ~has_loader THEN "TemplateError" ELSE load_with_parent(has_loader)
    ELSE _get_ancestors(Tail(chunks), has_loader)

\* The digits, by value.
Digits == <<"0", "1", "2", "3", "4", "5", "6", "7", "8", "9">>

\* The words of a line of the generated code, split at the blanks.
RECURSIVE Tokens(_, _)
Tokens(chars, word) ==
    IF chars = <<>> THEN IF word = <<>> THEN <<>> ELSE <<word>>
    ELSE IF Head(chars) = " "
         THEN IF word = <<>> THEN Tokens(Tail(chars), <<>>)
              ELSE <<word>> \o Tokens(Tail(chars), <<>>)
    ELSE Tokens(Tail(chars), Append(word, Head(chars)))

\* The Python expressions this module evaluates: a name or a one-digit
\* number, or two of them with a minus sign between.
IsDigit(tok) == Len(tok) = 1 /\ \E d \in 1..10 : Digits[d] = tok[1]
IsAtom(tok)  == IsName(tok) \/ IsDigit(tok)
IsExpr(toks) ==
    \/ Len(toks) = 1 /\ IsAtom(toks[1])
    \/ Len(toks) = 3 /\ IsAtom(toks[1]) /\ toks[2] = <<"-">> /\ IsAtom(toks[3])

\* The words of a line from word n on.
From(toks, n) == SubSeq(toks, n, Len(toks))

\* What a line of words is to Python when a chunk of class op wrote it, as far
\* as this module reads Python: break, continue, "name = expression",
\* "if/while expression", "for name in expression", "elif expression", else.
KindOf(op, toks) ==
    IF toks = <<>> THEN "<not modelled>"
    ELSE IF op = "stmt"
    THEN IF toks = <<Spell("break")>> THEN "break"
         ELSE IF toks = <<Spell("continue")>> THEN "continue"
         ELSE IF Len(toks) >= 3 /\ IsName(toks[1]) /\ toks[2] = <<"=">> /\ IsExpr(From(toks, 3))
         THEN "assign"
         ELSE "<not modelled>"
    ELSE IF op = "ctrl"
    THEN IF toks[1] \in {Spell("if"), Spell("while")} /\ IsExpr(From(toks, 2))
         THEN Word(toks[1])
         ELSE IF toks[1] = Spell("for") /\ Len(toks) >= 4 /\ IsName(toks[2])
                 /\ toks[3] = Spell("in") /\ IsExpr(From(toks, 4))
         THEN "for"
         ELSE "<not modelled>"
    ELSE IF op = "inter"
    THEN IF toks = <<Spell("else")>> THEN "else"
         ELSE IF toks[1] = Spell("elif") /\ IsExpr(From(toks, 2)) THEN "elif"
         ELSE "<not modelled>"
    ELSE "<not modelled>"

\* What the line of a _Statement, _ControlBlock or _IntermediateControlBlock
\* is to Python.
Kind(o) == KindOf(o.op, Tokens(o.s, <<>>))

\* The clauses of a compound statement: the body of a _ControlBlock is cut at
\* the lines its _IntermediateControlBlock chunks wrote one level out; each
\* clause is known by the line that opens it.
RECURSIVE Arms(_, _, _)
Arms(code, head, arm) ==
    IF code = <<>> THEN <<[head |-> head, code |-> arm]>>
    ELSE IF Head(code).op = "inter"
         THEN <<[head |-> head, code |-> arm]>> \o Arms(Tail(code), Head(code), <<>>)
    ELSE Arms(Tail(code), head, Append(arm, Head(code)))

\* Of two verdicts on parts of the code, the one on the whole.
Verdict(first, rest) ==
    IF "<not modelled>" \in {first, rest} THEN "<not modelled>"
    ELSE IF first # "" THEN first ELSE rest

\* compile(self.code, ...): Python rejects an expression or an escaping
\* function that is not a name ('' as the function gives the call (_tt_tmp)),
\* a break or continue that no loop body holds (the else clause of a loop is
\* outside it), and an elif or else after an else.  Lines this module does
\* not read as Python are not judged.
RECURSIVE PyCheck(_, _), PyCheckLine(_, _, _, _), PyCheckArms(_, _, _, _)
PyCheck(code, in_loop) ==
    IF code = <<>> THEN ""
    ELSE LET o == Head(code)
         IN  IF o.op = "append" THEN PyCheck(Tail(code), in_loop)
             ELSE IF o.op \in {"expr", "module"}
             THEN IF ~IsName(o.s) THEN Verdict("SyntaxError", PyCheck(Tail(code), in_loop))
                  ELSE IF o.fn \notin {NoneStr, <<>>} /\ ~IsName(o.fn)
                  THEN Verdict("SyntaxError", PyCheck(Tail(code), in_loop))
                  ELSE PyCheck(Tail(code), in_loop)
             ELSE PyCheckLine(o, Kind(o), Tail(code), in_loop)

\* A line written by _Statement or _ControlBlock, and the lines after it.
PyCheckLine(o, kind, code, in_loop) ==
    IF kind \in {"break", "continue"}
    THEN Verdict(IF in_loop THEN "" ELSE "SyntaxError", PyCheck(code, in_loop))
    ELSE IF kind = "assign" THEN PyCheck(code, in_loop)
    ELSE IF kind \in {"if", "while", "for"}
    THEN Verdict(PyCheckArms(Arms(o.body, o, <<>>), kind, in_loop, 1), PyCheck(code, in_loop))
    ELSE "<not modelled>"

\* The clauses of one compound statement, from clause i on.
PyCheckArms(arms, kind, in_loop, i) ==
    IF i > Len(arms) THEN ""
    ELSE LET order ==
                 IF i = 1 THEN ""
                 ELSE IF Kind(arms[i].head) = "<not modelled>" THEN "<not modelled>"
                 ELSE IF Kind(arms[i - 1].head) = "else" THEN "SyntaxError"
                 ELSE IF kind # "if" /\ Kind(arms[i].head) # "else" THEN "SyntaxError"
                 ELSE ""
             body == PyCheck(arms[i].code, IF kind = "if" THEN in_loop ELSE in_loop \/ i = 1)
         IN  Verdict(Verdict(order, body), PyCheckArms(arms, kind, in_loop, i + 1))

PyCompile(code) == PyCheck(code, FALSE)

\* A compiled Template, or the exception its constructor raised.
TemplateObject(err, msg, name, auto_escape, chunks, code) ==
    [err |-> err, msg |-> msg, name |-> name, auto_escape |-> auto_escape,
     chunks |-> chunks, code |-> code]

\* No loader: Template(..., loader=None).
NoLoader == [present |-> FALSE, auto_escape |-> NoneStr]

\* compile(self.code, ...) and the object the constructor leaves.
Compile(name, chunks, self, gen) ==
    IF gen.err # "" THEN TemplateObject(gen.err, "", name, self.auto_escape, <<>>, <<>>)
    ELSE IF PyCompile(gen.code) # ""
    THEN TemplateObject(PyCompile(gen.code), "", name, self.auto_escape, <<>>, <<>>)
    ELSE TemplateObject("", "", name, self.auto_escape, chunks, gen.code)

\* Template.__init__ after _parse: _generate_python (_get_ancestors, the
\* named blocks, the code of the root's body) and compile().
_generate_python(name, has_loader, chunks, self) ==
    LET anc == _get_ancestors(chunks, has_loader)
        nb  == find_named_blocks(chunks, self, has_loader, <<>>)
    IN  IF anc # "" THEN TemplateObject(anc, "", name, self.auto_escape, <<>>, <<>>)
        ELSE IF nb.err # ""
        THEN TemplateObject(nb.err, "", name, self.auto_escape, <<>>, <<>>)
        ELSE Compile(name, chunks, self, generate(chunks, self, nb.nb, has_loader))

\* Template.__init__ that is done when _parse has returned
Parsed_only(name, has_loader, p) ==
    IF p.err # "" THEN TemplateObject(p.err, p.msg, name, p.ae, <<>>, <<>>)
    ELSE TemplateObject("", "", name, p.ae, p.chunks, <<>>)

\* Template.__init__ from the result p of _parse on.
Parsed(name, has_loader, p) ==
    IF p.err # "" THEN TemplateObject(p.err, p.msg, name, p.ae, <<>>, <<>>)
    ELSE _generate_python(name, has_loader, p.chunks, [name |-> name, auto_escape |-> p.ae])

\* Template.__init__(template_string, name, loader, auto_escape)
Template(template_string, name, loader, auto_escape) ==
    Parsed(name, loader.present,
           _parse(template_string,
                  TemplateReader(IF loader.present /\ loader.auto_escape # NoneStr
                                 THEN loader.auto_escape ELSE auto_escape),
                  None, None, <<>>))

(***************************************************************************)
(* sampan/template.py: Template.generate, the run of the generated code    *)
(***************************************************************************)

\* Values: a str (a sequence of characters), an int, or a function of the
\* namespace.
StrValue(chars) == [t |-> "str", s |-> chars, n |-> 0]
IntValue(n)     == [t |-> "int", s |-> <<>>, n |-> n]
FnValue(name)   == [t |-> "fn", s |-> <<name>>, n |-> 0]

\* A list; its items are one-character strs and one-digit ints, each written
\* as its character.
ListValue(items) == [t |-> "list", s |-> items, n |-> 0]

\* The value of a digit.
DigitValue(c) == IntValue((CHOOSE d \in 1..10 : Digits[d] = c) - 1)

\* An item of a list.
Item(c) == IF \E d \in 1..10 : Digits[d] = c THEN DigitValue(c) ELSE StrValue(<<c>>)

\* str(list): the repr of each item, between brackets.
RECURSIVE ReprItems(_)
ReprItems(items) ==
    IF items = <<>> THEN <<>>
    ELSE (IF Item(Head(items)).t = "int" THEN <<Head(items)>>
          ELSE <<"'", Head(items), "'">>)
         \o (IF Tail(items) = <<>> THEN <<>> ELSE <<",", " ">> \o ReprItems(Tail(items)))

\* str(n) of an int
RECURSIVE IntToStr(_)
IntToStr(n) ==
    IF n < 0 THEN <<"-">> \o IntToStr(-n)
    ELSE IF n < 10 THEN <<Digits[n + 1]>>
    ELSE IntToStr(n \div 10) \o <<Digits[(n % 10) + 1]>>

\* The generated lines after "_tt_tmp = <expression>": a str is kept as it is
\* (_tt_utf8 is to_str), anything else goes through str().
to_str(value) ==
    IF value.t = "str" THEN value.s
    ELSE IF value.t = "int" THEN IntToStr(value.n)
    ELSE IF value.t = "list" THEN <<"[">> \o ReprItems(value.s) \o <<"]">>
    ELSE <<"<function ">> \o value.s \o <<">">>

\* html.escape(s), quote=True: each character by itself; an entity is one symbol.
RECURSIVE escape(_)
escape(chars) ==
    IF chars = <<>> THEN <<>>
    ELSE LET c == Head(chars)
         IN  << CASE c = "&"  -> "&amp;"
                  [] c = "<"  -> "&lt;"
                  [] c = ">"  -> "&gt;"
                  [] c = "\"" -> "&quot;"
                  [] c = "'"  -> "&#x27;"
                  [] OTHER    -> c >> \o escape(Tail(chars))

\* squeeze(s): re.sub(r"[\x00-\x20]+", " ", s).strip()
RECURSIVE SqueezeRuns(_)
SqueezeRuns(chars) ==
    IF chars = <<>> THEN <<>>
    ELSE IF Head(chars) \in Whitespace
         THEN IF Tail(chars) # <<>> /\ Head(Tail(chars)) \in Whitespace
              THEN SqueezeRuns(Tail(chars))
              ELSE <<" ">> \o SqueezeRuns(Tail(chars))
    ELSE <<Head(chars)>> \o SqueezeRuns(Tail(chars))

squeeze(chars) == strip(SqueezeRuns(chars))

\* urllib.parse.quote(s): the characters outside its safe set, percent-encoded.
RECURSIVE quote(_)
quote(chars) ==
    IF chars = <<>> THEN <<>>
    ELSE LET c == Head(chars)
         IN  << CASE c = "&"  -> "%26"
                  [] c = "<"  -> "%3C"
                  [] c = ">"  -> "%3E"
                  [] c = "\"" -> "%22"
                  [] c = "'"  -> "%27"
                  [] c = " "  -> "%20"
                  [] c = "\n" -> "%0A"
                  [] OTHER    -> c >> \o quote(Tail(chars))

\* json.dumps(s) of a str
RECURSIVE JsonChars(_)
JsonChars(chars) ==
    IF chars = <<>> THEN <<>>
    ELSE LET c == Head(chars)
         IN  (CASE c = "\"" -> <<"\\", "\"">>
                [] c = "\n" -> <<"\\", "n">>
                [] OTHER    -> <<c>>) \o JsonChars(Tail(chars))

json_dumps(chars) == <<"\"">> \o JsonChars(chars) \o <<"\"">>

\* The callables Template.generate puts in the namespace, by name.
NamespaceFunctions == {"escape", "html_escape", "url_escape", "json_encode", "squeeze"}

\* namespace of Template.generate: the built-in entries, then the bindings of
\* the call (the loaders of this model carry an empty namespace).
Namespace(kwargs) ==
    [n \in {Spell(f) : f \in NamespaceFunctions} \cup DOMAIN kwargs |->
        IF n \in DOMAIN kwargs THEN kwargs[n] ELSE FnValue(Word(n))]

\* fn(_tt_tmp) for a function of the namespace.
Call(fname, chars) ==
    CASE fname \in {"escape", "html_escape"} -> escape(chars)
      [] fname = "url_escape"  -> quote(chars)
      [] fname = "json_encode" -> json_dumps(chars)
      [] OTHER                 -> squeeze(chars)

Raised(cls)  == [err |-> cls, out |-> <<>>]
Output(out)  == [err |-> "", out |-> out]

\* The names that are local to _tt_execute: those its lines assign, by
\* "name = ..." or as the target of a for, wherever in the function.
RECURSIVE Locals(_)
Locals(code) ==
    IF code = <<>> THEN {}
    ELSE LET o == Head(code)
         IN  (IF o.op = "stmt" /\ Kind(o) = "assign" THEN {Tokens(o.s, <<>>)[1]}
              ELSE IF o.op = "ctrl" /\ Kind(o) = "for"
              THEN {Tokens(o.s, <<>>)[2]} \cup Locals(o.body)
              ELSE IF o.op = "ctrl" THEN Locals(o.body)
              ELSE {})
             \cup Locals(Tail(code))

\* A value, or the exception its evaluation raised.
Value(v)     == [err |-> "", v |-> v]
NoValue(cls) == [err |-> cls, v |-> IntValue(0)]

\* Lookup that gives a name nothing defines the empty str
Lookup_or_empty(name, ns, lv, loc) ==
    IF name \in lv
    THEN IF name \in DOMAIN loc THEN Value(loc[name]) ELSE NoValue("UnboundLocalError")
    ELSE IF name \in DOMAIN ns THEN Value(ns[name]) ELSE Value(StrValue(<<>>))

\* The value of a name: a local of the function when the function assigns it
\* anywhere (unbound until it does), a global of the namespace otherwise.
Lookup(name, ns, lv, loc) ==
    IF name \in lv
    THEN IF name \in DOMAIN loc THEN Value(loc[name]) ELSE NoValue("UnboundLocalError")
    ELSE IF name \in DOMAIN ns THEN Value(ns[name]) ELSE NoValue("NameError")

Atom(tok, ns, lv, loc) ==
    IF IsDigit(tok) THEN Value(DigitValue(tok[1])) ELSE Lookup(tok, ns, lv, loc)

\* left - right
Minus(left, right) ==
    IF left.err # "" THEN left
    ELSE IF right.err # "" THEN right
    ELSE IF left.v.t = "int" /\ right.v.t = "int" THEN Value(IntValue(left.v.n - right.v.n))
    ELSE NoValue("TypeError")

Eval(toks, ns, lv, loc) ==
    IF Len(toks) = 1 THEN Atom(toks[1], ns, lv, loc)
    ELSE Minus(Atom(toks[1], ns, lv, loc), Atom(toks[3], ns, lv, loc))

\* bool(value)
Truth(value) ==
    IF value.t = "int" THEN value.n # 0
    ELSE IF value.t \in {"str", "list"} THEN value.s # <<>>
    ELSE TRUE

\* The state of a run of _tt_execute: the exception raised if any, _tt_buffer,
\* the locals, and a break or continue on its way out of a loop body.
Frame(err, out, loc, flow) == [err |-> err, out |-> out, loc |-> loc, flow |-> flow]
Throw(st, cls)   == [st EXCEPT !.err = cls]
Emit(st, chars)  == [st EXCEPT !.out = st.out \o chars]
Bind(st, name, value) == [st EXCEPT !.loc = Put(st.loc, name, value)]

\* _tt_append(fn(_tt_tmp)) with fn looked up
Escaped(st, fn, tmp) ==
    IF fn.err # "" THEN Throw(st, fn.err)
    ELSE IF fn.v.t # "fn" THEN Throw(st, "TypeError")
    ELSE Emit(st, Call(fn.v.s[1], tmp))

\* The lines of an _Expression
ExpressionStep(o, ns, lv, st, value) ==
    IF value.err # "" THEN Throw(st, value.err)
    ELSE IF o.fn \in {NoneStr, <<>>} THEN Emit(st, to_str(value.v))
    ELSE Escaped(st, Lookup(o.fn, ns, lv, st.loc), to_str(value.v))

\* name = expression
AssignStep(name, st, value) ==
    IF value.err # "" THEN Throw(st, value.err) ELSE Bind(st, name, value.v)

\* The number of times a while loop goes round before this module takes it
\* to go round for ever.
LoopLimit == 3

RECURSIVE Exec(_, _, _, _), Branch(_, _, _, _, _), BranchOn(_, _, _, _, _, _),
          While(_, _, _, _, _, _), WhileOn(_, _, _, _, _, _, _), WhileNext(_, _, _, _, _, _),
          For(_, _, _, _, _, _, _), ForNext(_, _, _, _, _, _, _), ForOver(_, _, _, _, _, _),
          Step(_, _, _, _), Line(_, _, _, _, _, _), Clause(_, _, _, _, _)

\* The lines of a block in order, until one raises, breaks or continues.
Exec(code, ns, lv, st) ==
    IF code = <<>> \/ st.err # "" \/ st.flow # "" THEN st
    ELSE Exec(Tail(code), ns, lv, Step(Head(code), ns, lv, st))

\* The else clause of a loop, if it has one.
Clause(arms, i, ns, lv, st) ==
    IF i > Len(arms) THEN st ELSE Exec(arms[i].code, ns, lv, st)

\* if / elif / else: the clauses from clause i on
Branch(arms, i, ns, lv, st) ==
    IF i > Len(arms) THEN st
    ELSE IF Kind(arms[i].head) = "else" THEN Exec(arms[i].code, ns, lv, st)
    ELSE BranchOn(arms, i, ns, lv, st,
                  Eval(From(Tokens(arms[i].head.s, <<>>), 2), ns, lv, st.loc))

BranchOn(arms, i, ns, lv, st, cond) ==
    IF cond.err # "" THEN Throw(st, cond.err)
    ELSE IF Truth(cond.v) THEN Exec(arms[i].code, ns, lv, st)
    ELSE Branch(arms, i + 1, ns, lv, st)

\* while expression: ... else: ...
While(toks, arms, ns, lv, st, fuel) ==
    WhileOn(toks, arms, ns, lv, st, fuel, Eval(toks, ns, lv, st.loc))

WhileOn(toks, arms, ns, lv, st, fuel, cond) ==
    IF cond.err # "" THEN Throw(st, cond.err)
    ELSE IF ~Truth(cond.v) THEN Clause(arms, 2, ns, lv, st)
    ELSE IF fuel = 0 THEN Throw(st, "<no return>")
    ELSE WhileNext(toks, arms, ns, lv, fuel, Exec(arms[1].code, ns, lv, st))

\* The body has run once.
WhileNext(toks, arms, ns, lv, fuel, st) ==
    IF st.err # "" THEN st
    ELSE IF st.flow = "break" THEN [st EXCEPT !.flow = ""]
    ELSE While(toks, arms, ns, lv, [st EXCEPT !.flow = ""], fuel - 1)

\* for name in expression: ... else: ...
ForOver(name, arms, ns, lv, st, seq) ==
    IF seq.err # "" THEN Throw(st, seq.err)
    ELSE IF seq.v.t \notin {"str", "list"} THEN Throw(st, "TypeError")
    ELSE For(name, seq.v.t, seq.v.s, arms, ns, lv, st)

For(name, t, items, arms, ns, lv, st) ==
    IF items = <<>> THEN Clause(arms, 2, ns, lv, st)
    ELSE ForNext(name, t, Tail(items), arms, ns, lv,
                 Exec(arms[1].code, ns, lv,
                      Bind(st, name, IF t = "str" THEN StrValue(<<Head(items)>>)
                                     ELSE Item(Head(items)))))

\* ForNext of a loop that a break does not end
ForNext_past_break(name, t, items, arms, ns, lv, st) ==
    IF st.err # "" THEN st
    ELSE For(name, t, items, arms, ns, lv, [st EXCEPT !.flow = ""])

\* The body has run for one item: an exception or a break ends the loop, a
\* continue or the end of the body goes on to the next item.
ForNext(name, t, items, arms, ns, lv, st) ==
    IF st.err # "" THEN st
    ELSE IF st.flow = "break" THEN [st EXCEPT !.flow = ""]
    ELSE For(name, t, items, arms, ns, lv, [st EXCEPT !.flow = ""])

\* One operation of the generated code.
Step(o, ns, lv, st) ==
    IF o.op = "append" THEN Emit(st, o.s)
    ELSE IF o.op = "module" THEN Throw(st, "NameError")   \* _tt_modules is not defined
    ELSE IF o.op = "expr" THEN ExpressionStep(o, ns, lv, st, Lookup(o.s, ns, lv, st.loc))
    ELSE Line(o, Kind(o), Tokens(o.s, <<>>), ns, lv, st)

\* A line written by _Statement or _ControlBlock, the latter with its body.
Line(o, kind, toks, ns, lv, st) ==
    IF kind \in {"break", "continue"} THEN [st EXCEPT !.flow = kind]
    ELSE IF kind = "assign"
    THEN AssignStep(toks[1], st, Eval(From(toks, 3), ns, lv, st.loc))
    ELSE IF kind = "if" THEN Branch(Arms(o.body, o, <<>>), 1, ns, lv, st)
    ELSE IF kind = "while"
    THEN While(From(toks, 2), Arms(o.body, o, <<>>), ns, lv, st, LoopLimit)
    ELSE IF kind = "for"
    THEN ForOver(toks[2], Arms(o.body, o, <<>>), ns, lv, st,
                 Eval(From(toks, 4), ns, lv, st.loc))
    ELSE Throw(st, "<not modelled>")

\* The result of a run: what the function returns, or what it raised.
Returns(st) == IF st.err # "" THEN Raised(st.err) ELSE Output(st.out)

\* _tt_execute(): the operations in order, appending to _tt_buffer; the result
\* is the joined buffer.
_tt_execute(code, namespace, buffer) ==
    Returns(Exec(code, namespace, Locals(code), Frame("", buffer, <<>>, "")))

\* Template.generate(**kwargs)
Generate(template, kwargs) == _tt_execute(template.code, Namespace(kwargs), <<>>)

(***************************************************************************)
(* sampan/templateNG.py: the regular expressions                           *)
(*                                                                         *)
(* A pattern is the list of its tokens, matched as Python's re matches:    *)
(* leftmost alternative and longest (greedy) or shortest (lazy) repetition *)
(* first, backtracking on failure.                                         *)
(***************************************************************************)
Tok(t, s, cls, min, lazy, opts) ==
    [t |-> t, s |-> s, cls |-> cls, min |-> min, lazy |-> lazy, opts |-> opts]

Lit(w)              == Tok("lit", Spell(w), "", 0, FALSE, <<>>)
Rep(cls, min, lazy) == Tok("rep", <<>>, cls, min, lazy, <<>>)
Alt(opts)           == Tok("alt", <<>>, "", 0, FALSE, opts)
GroupOpen           == Tok("(", <<>>, "", 0, FALSE, <<>>)
GroupClose          == Tok(")", <<>>, "", 0, FALSE, <<>>)

\* [ \t\n\r], [a-zA-Z0-9_], . with and without re.DOTALL, [^{]
InClass(c, cls) ==
    CASE cls = "ws"      -> c \in {" ", "\t", "\n", "\r"}
      [] cls = "word"    -> c \in Letters \/ \E d \in 1..Len(Digits) : Digits[d] = c
      [] cls = "dot"     -> c # "\n"
      [] cls = "nobrace" -> c # "{"
      [] OTHER           -> TRUE

\* WS = r'[ \t\n\r]*'
WS == Rep("ws", 0, FALSE)

\* The number of characters of the class in a row from index i (0-based).
RECURSIVE Run(_, _, _)
Run(s, i, cls) ==
    IF i < Len(s) /\ InClass(s[i + 1], cls) THEN 1 + Run(s, i + 1, cls) ELSE 0

\* s.startswith(needle, i)
StartsWith(s, i, needle) ==
    i + Len(needle) <= Len(s) /\ SubSeq(s, i + 1, i + Len(needle)) = needle

NoMatch == [ok |-> FALSE, end |-> 0, caps |-> <<>>]

RECURSIVE re_match(_, _, _, _, _)
RECURSIVE re_rep(_, _, _, _, _, _, _)
RECURSIVE re_alt(_, _, _, _, _, _)

\* The repetition re[k] taken j times, then the rest; on failure one more
\* (lazy) or one fewer (greedy), within min..n.
re_rep(re, k, s, i, caps, j, n) ==
    LET m == re_match(re, k + 1, s, i + j, caps)
    IN  IF m.ok THEN m
        ELSE IF re[k].lazy
             THEN IF j + 1 <= n THEN re_rep(re, k, s, i, caps, j + 1, n) ELSE NoMatch
             ELSE IF j - 1 >= re[k].min THEN re_rep(re, k, s, i, caps, j - 1, n) ELSE NoMatch

\* The alternatives of re[k] from the j-th on, in order.
re_alt(re, k, s, i, caps, j) ==
    IF j > Len(re[k].opts) THEN NoMatch
    ELSE LET m == IF StartsWith(s, i, Spell(re[k].opts[j]))
                  THEN re_match(re, k + 1, s, i + Len(Spell(re[k].opts[j])), caps)
                  ELSE NoMatch
         IN  IF m.ok THEN m ELSE re_alt(re, k, s, i, caps, j + 1)

\* regex.match(s, i) from token k on: the end of the match and the group
\* boundaries met so far (group g is s[caps[2g-1]:caps[2g]]).
re_match(re, k, s, i, caps) ==
    IF k > Len(re) THEN [ok |-> TRUE, end |-> i, caps |-> caps]
    ELSE IF re[k].t = "lit"
    THEN IF StartsWith(s, i, re[k].s)
         THEN re_match(re, k + 1, s, i + Len(re[k].s), caps)
         ELSE NoMatch
    ELSE IF re[k].t \in {"(", ")"}
    THEN re_match(re, k + 1, s, i, Append(caps, i))
    ELSE IF re[k].t = "alt"
    THEN re_alt(re, k, s, i, caps, 1)
    ELSE IF Run(s, i, re[k].cls) < re[k].min THEN NoMatch
    ELSE re_rep(re, k, s, i, caps,
                IF re[k].lazy THEN re[k].min ELSE Run(s, i, re[k].cls),
                Run(s, i, re[k].cls))

\* m.group(g)
group(s, m, g) == Slice(s, m.caps[2 * g - 1], m.caps[2 * g])

\* _Reader.match(regex) and _Reader.consume(regex): the match at the cursor;
\* consume moves the cursor to m.end when there is one.
match(regex, s, pos) == re_match(regex, 1, s, pos, <<>>)

\* Template.regex_tag: {([#,{,%])
regex_tag == <<Lit("{"), GroupOpen, Alt(<<"#", ",", "{", "%">>), GroupClose>>

\* Template.regex_operator: {%WS([a-zA-Z0-9_]+)
regex_operator == <<Lit("{"), Lit("%"), WS, GroupOpen, Rep("word", 1, FALSE), GroupClose>>

\* _Text.regex: [^{]+
_Text_regex == <<Rep("nobrace", 1, FALSE)>>

\* _Comment.regex: {#.+?#} with re.DOTALL
_Comment_regex == <<Lit("{"), Lit("#"), Rep("any", 1, TRUE), Lit("#"), Lit("}")>>

\* _Expression.regex: {{WS(.+?)WS}} without flags
_Expression_regex ==
    <<Lit("{"), Lit("{"), WS, GroupOpen, Rep("dot", 1, TRUE), GroupClose, WS,
      Lit("}"), Lit("}")>>

\* _StatementInline.regex: {%WS([a-zA-Z0-9_]+?WS.+?)WS%} without flags
_StatementInline_regex ==
    <<Lit("{"), Lit("%"), WS, GroupOpen, Rep("word", 1, TRUE), WS, Rep("dot", 1, TRUE),
      GroupClose, WS, Lit("%"), Lit("}")>>

\* _StatementIf.regex: {%WS((?:if|else|elif).*?)WS%} with re.DOTALL
_StatementIf_regex ==
    <<Lit("{"), Lit("%"), WS, GroupOpen, Alt(<<"if", "else", "elif">>), Rep("any", 0, TRUE),
      GroupClose, WS, Lit("%"), Lit("}")>>

\* _StatementIf.regex_end: {%WSendWS%}
_StatementIf_regex_end == <<Lit("{"), Lit("%"), WS, Lit("end"), WS, Lit("%"), Lit("}")>>

\* _StatementLoop.regex: {%WS((?:for|while)WS.+?)WS%}(.+?){%WSendWS%}, DOTALL
_StatementLoop_regex ==
    <<Lit("{"), Lit("%"), WS, GroupOpen, Alt(<<"for", "while">>), WS, Rep("any", 1, TRUE),
      GroupClose, WS, Lit("%"), Lit("}"), GroupOpen, Rep("any", 1, TRUE), GroupClose>>
    \o _StatementIf_regex_end

\* _StatementBlock.regex: {%WS(blockWS.+?)WS%}(.+?){%WSendWS%}, DOTALL
_StatementBlock_regex ==
    <<Lit("{"), Lit("%"), WS, GroupOpen, Lit("block"), WS, Rep("any", 1, TRUE),
      GroupClose, WS, Lit("%"), Lit("}"), GroupOpen, Rep("any", 1, TRUE), GroupClose>>
    \o _StatementIf_regex_end

(***************************************************************************)
(* sampan/templateNG.py: the nodes and _Parser.parse                       *)
(***************************************************************************)

\* A node: its class, the string it keeps (text, exp, stat or name) and, for a
\* block, the source of its body.
Node(k, s, block) == [k |-> k, s |-> s, block |-> block]

\* The outcome of a node's constructor: the node and the cursor it leaves, or
\* the exception it raised.
Built(node, pos) == [err |-> "", node |-> node, pos |-> pos]
Broke(cls)       == [err |-> cls, node |-> Node("", <<>>, <<>>), pos |-> 0]

\* _Text.__init__: reader.consume(self.regex).group()
_Text(s, pos) ==
    LET m == match(_Text_regex, s, pos)
    IN  IF m.ok THEN Built(Node("_Text", Slice(s, pos, m.end), <<>>), m.end)
        ELSE Broke("AttributeError")

\* _Comment.__init__: the match is not looked at, the cursor stays where it is
\* when there is none.
_Comment(s, pos) ==
    LET m == match(_Comment_regex, s, pos)
    IN  Built(Node("_Comment", <<>>, <<>>), IF m.ok THEN m.end ELSE pos)

\* _Expression.__init__: reader.consume(self.regex).group(1)
_Expression(s, pos) ==
    LET m == match(_Expression_regex, s, pos)
    IN  IF m.ok THEN Built(Node("_Expression", group(s, m, 1), <<>>), m.end)
        ELSE Broke("AttributeError")

\* _StatementInline.__init__ and the subclasses that keep one side of
\* self.stat.partition(' '): _StatementSet, _StatementRaw, _StatementAutoescape
\* and _StatementInclude (which strips the quotes of the name).
_StatementInline(s, pos, cls) ==
    LET m == match(_StatementInline_regex, s, pos)
    IN  IF ~m.ok THEN Broke("AttributeError")
        ELSE IF cls \in {"_StatementSet", "_StatementRaw", "_StatementAutoescape"}
        THEN Built(Node(cls, partition(group(s, m, 1)).suffix, <<>>), m.end)
        ELSE IF cls = "_StatementInclude"
        THEN Built(Node(cls, StripChar(StripChar(partition(group(s, m, 1)).suffix, "'"), "\""),
                        <<>>), m.end)
        ELSE IF cls = "_StatementExtends"
        THEN Broke("AttributeError")       \* super(_StatementExtends, self).stat
        ELSE Built(Node(cls, group(s, m, 1), <<>>), m.end)

\* _StatementIf.__init__: with a match, self.template.parser is looked up and
\* Template has no such attribute; without one, neither regex consumes anything.
_StatementIf(s, pos) ==
    IF match(_StatementIf_regex, s, pos).ok THEN Broke("AttributeError")
    ELSE LET e == match(_StatementIf_regex_end, s, pos)
         IN  Built(Node("_StatementIf", <<>>, <<>>), IF e.ok THEN e.end ELSE pos)

\* _StatementLoop.__init__: _m.group(1) of no match, or self.template.parser
_StatementLoop(s, pos) == Broke("AttributeError")

\* _StatementBlock.__init__
_StatementBlock(s, pos) ==
    LET m == match(_StatementBlock_regex, s, pos)
    IN  IF m.ok THEN Built(Node("_StatementBlock", group(s, m, 1), group(s, m, 2)), m.end)
        ELSE Broke("AttributeError")

\* _Parser.__init__: self._in_nested = 0, and nothing calls in_nested().
_in_nested == 0

\* The outcome of _Parser.parse.
ParseResult(err, chunks) == [err |-> err, chunks |-> chunks]

\* The class _Parser.parse builds for an operator that takes no body.
InlineClass(operator) ==
    CASE operator = "set"        -> "_StatementSet"
      [] operator = "comment"    -> "_StatementComment"
      [] operator = "raw"        -> "_StatementRaw"
      [] operator = "autoescape" -> "_StatementAutoescape"
      [] operator = "include"    -> "_StatementInclude"
      [] operator = "extends"    -> "_StatementExtends"
      [] OTHER                   -> "_StatementInline"

RECURSIVE parse(_, _, _, _)

\* chunks.append(<node>) and the next turn of the loop.  A constructor that
\* returns with the cursor where it was leaves the loop where it was: parse
\* appends nodes for ever and does not return.
append(s, pos, chunks, _in_loop, built) ==
    IF built.err # "" THEN ParseResult(built.err, <<>>)
    ELSE IF built.pos = pos THEN ParseResult("<no return>", <<>>)
    ELSE parse(s, built.pos, Append(chunks, built.node), _in_loop)

\* The '%' branch of _Parser.parse, from the operator on.
parse_operator(s, pos, chunks, _in_loop, operator) ==
    IF operator = "end" /\ _in_nested = 0 THEN ParseResult("", chunks)
    ELSE IF operator \in {"import", "from"}
    THEN append(s, pos, chunks, _in_loop, _StatementInline(s, pos, "_StatementInline"))
    ELSE IF operator \in {"break", "continue"}
    THEN IF ~_in_loop THEN ParseResult("TemplateParseError", <<>>)
         ELSE append(s, pos, chunks, _in_loop, _StatementInline(s, pos, "_StatementInline"))
    ELSE IF operator \in {"set", "comment", "raw", "autoescape", "include", "extends"}
    THEN append(s, pos, chunks, _in_loop, _StatementInline(s, pos, InlineClass(operator)))
    ELSE IF operator = "if"
    THEN append(s, pos, chunks, _in_loop, _StatementIf(s, pos))
    ELSE IF operator \in {"for", "while"}
    THEN append(s, pos, chunks, _in_loop, _StatementLoop(s, pos))
    ELSE IF operator = "block"
    THEN append(s, pos, chunks, _in_loop, _StatementBlock(s, pos))
    ELSE ParseResult("TemplateParseError", <<>>)     \* Unknown operator

\* _Parser.parse, from reader position pos with the chunks so far.
parse(s, pos, chunks, _in_loop) ==
    IF Len(s) - pos <= 0 THEN ParseResult("", chunks)
    ELSE IF ~match(regex_tag, s, pos).ok
    THEN append(s, pos, chunks, _in_loop, _Text(s, pos))
    ELSE IF s[pos + 2] = "#"
    THEN append(s, pos, chunks, _in_loop, _Comment(s, pos))
    ELSE IF s[pos + 2] = "{"
    THEN append(s, pos, chunks, _in_loop, _Expression(s, pos))
    ELSE IF s[pos + 2] = "%"
    THEN IF ~match(regex_operator, s, pos).ok
         THEN ParseResult("AttributeError", <<>>)    \* .group(1) of no match
         ELSE parse_operator(s, pos, chunks, _in_loop,
                             Word(group(s, match(regex_operator, s, pos), 1)))
    ELSE ParseResult("TemplateParseError", <<>>)     \* Unknown tag ','

(***************************************************************************)
(* sampan/templateNG.py: Template                                          *)
(***************************************************************************)

\* The keys of Template.namespace that name a callable or a module.
Template_namespace == {"tt_str", "html_escape", "url_quote", "json_encode", "squeeze", "datetime"}

\* What the nodes' generate() leave: the operations written, and
\* template.autoescape (a function is known by its name in the namespace).
Written(code, autoescape) == [err |-> "", code |-> code, autoescape |-> autoescape]
Unwritten(cls)            == [err |-> cls, code |-> <<>>, autoescape |-> NoneStr]

\* _Body.generate: each chunk's generate(), in order.
RECURSIVE _Body_generate(_, _, _)
_Body_generate(chunks, autoescape, code) ==
    IF chunks = <<>> THEN Written(code, autoescape)
    ELSE
    LET c == Head(chunks)
    IN  IF c.k = "_Text"
        THEN _Body_generate(Tail(chunks), autoescape,
                            Append(code, Op("append", c.s, NoneStr, <<>>)))
        ELSE IF c.k = "_Expression"
        THEN _Body_generate(Tail(chunks), autoescape,
                            Append(code, Op("expr", c.s, autoescape, <<>>)))
        ELSE IF c.k = "_StatementRaw"
        THEN _Body_generate(Tail(chunks), autoescape,
                            Append(code, Op("expr", c.s, NoneStr, <<>>)))
        ELSE IF c.k \in {"_StatementInline", "_StatementSet"}
        THEN _Body_generate(Tail(chunks), autoescape,
                            Append(code, Op("stmt", c.s, NoneStr, <<>>)))
        ELSE IF c.k = "_StatementAutoescape"
        THEN IF c.s = Spell("None") THEN _Body_generate(Tail(chunks), NoneStr, code)
             ELSE IF Word(c.s) \notin Template_namespace THEN Unwritten("TemplateError")
             ELSE _Body_generate(Tail(chunks), c.s, code)
        ELSE IF c.k = "_StatementInclude"
        THEN Unwritten("AttributeError")         \* self.template.writer.loader
        ELSE IF c.k = "_StatementBlock"
        THEN Unwritten("<not modelled>")
        ELSE _Body_generate(Tail(chunks), autoescape, code)   \* comments: pass

\* _Node.find_named_blocks over the body: _StatementBlock.each_child returns
\* the block's source, a str, whose characters have no find_named_blocks.
RECURSIVE find_named_blocks_NG(_)
find_named_blocks_NG(chunks) ==
    IF chunks = <<>> THEN ""
    ELSE IF Head(chunks).k = "_StatementBlock" THEN "AttributeError"
    ELSE find_named_blocks_NG(Tail(chunks))

\* Template.__init__ from ancestors[0].generate() on: the writer's output is
\* compiled.
Written_compiled(name, chunks, w) ==
    IF w.err # "" THEN TemplateObject(w.err, "", name, w.autoescape, <<>>, <<>>)
    ELSE IF PyCompile(w.code) # ""
    THEN TemplateObject(PyCompile(w.code), "", name, w.autoescape, <<>>, <<>>)
    ELSE TemplateObject("", "", name, w.autoescape, chunks, w.code)

\* Template.__init__ from the parser's result on.  No parsed body holds a
\* _StatementExtends (its constructor raises), so get_ancestors is the file.
Parsed_NG(name, autoescape, p) ==
    IF p.err # "" THEN TemplateObject(p.err, "", name, autoescape, <<>>, <<>>)
    ELSE IF find_named_blocks_NG(p.chunks) # ""
    THEN TemplateObject(find_named_blocks_NG(p.chunks), "", name, autoescape, <<>>, <<>>)
    ELSE Written_compiled(name, p.chunks, _Body_generate(p.chunks, autoescape, <<>>))

\* Template.__init__(raw, name, autoescape, loader)
Template_NG(raw, name, autoescape, loader) ==
    Parsed_NG(name,
              IF loader.present /\ loader.auto_escape # NoneStr
              THEN loader.auto_escape ELSE autoescape,
              parse(raw, 0, <<>>, FALSE))

\* fn(tt_tmp) for a function of the namespace and a value; tt_str() of the
\* result is a str.
Call_NG(fname, value) ==
    CASE fname = "html_escape" ->
            IF value.t = "str" THEN Output(escape(value.s)) ELSE Raised("AttributeError")
      [] fname = "squeeze" ->
            IF value.t = "str" THEN Output(squeeze(value.s)) ELSE Raised("TypeError")
      [] fname = "url_quote" ->
            IF value.t = "str" THEN Output(quote(value.s)) ELSE Raised("TypeError")
      [] fname = "json_encode" ->
            IF value.t = "str" THEN Output(json_dumps(value.s))
            ELSE IF value.t = "int" THEN Output(IntToStr(value.n))
            ELSE Raised("TypeError")
      [] OTHER -> Raised("<not modelled>")

\* tt_execute(): the operations in order; joined tells whether every item of
\* tt_buffer is a str, which ''.join requires.
RECURSIVE tt_execute(_, _, _, _)
tt_execute(code, ns, buffer, joined) ==
    IF code = <<>> THEN IF joined THEN Output(buffer) ELSE Raised("TypeError")
    ELSE
    LET o == Head(code)
    IN  IF o.op = "append" THEN tt_execute(Tail(code), ns, buffer \o o.s, joined)
        ELSE IF o.op # "expr" THEN Raised("<not modelled>")
        ELSE IF o.s \notin DOMAIN ns THEN Raised("NameError")
        ELSE IF o.fn = NoneStr
        THEN IF ns[o.s].t = "str"
             THEN tt_execute(Tail(code), ns, buffer \o ns[o.s].s, joined)
             ELSE tt_execute(Tail(code), ns, buffer, FALSE)
        ELSE IF Call_NG(Word(o.fn), ns[o.s]).err # ""
        THEN Call_NG(Word(o.fn), ns[o.s])
        ELSE tt_execute(Tail(code), ns, buffer \o Call_NG(Word(o.fn), ns[o.s]).out, joined)

\* Template.render(**kwargs): ns is self.namespace updated with kwargs.
render(template, kwargs) ==
    tt_execute(template.code,
               [n \in {Spell(f) : f \in Template_namespace} \cup DOMAIN kwargs |->
                   IF n \in DOMAIN kwargs THEN kwargs[n] ELSE FnValue(Word(n))],
               <<>>, TRUE)

\* update of a dict that keeps the entries it has
update_keeping(d, other) ==
    [n \in DOMAIN d \cup DOMAIN other |-> IF n \in DOMAIN d THEN d[n] ELSE other[n]]

\* dict.update: the entries of d, replaced or joined by those of other
update(d, other) ==
    [n \in DOMAIN d \cup DOMAIN other |-> IF n \in DOMAIN other THEN other[n] ELSE d[n]]

\* Template.__init__ of template.py: self.namespace is the loader's namespace,
\* the same dict.
Template_namespace_of(loader_ns) == loader_ns

\* Template.__init__ of templateNG.py: self.namespace holds the built-in
\* callables, updated with the loader's namespace.
Template_namespace_with(loader_ns) ==
    update([n \in {Spell(f) : f \in Template_namespace} |-> FnValue(Word(n))], loader_ns)

\* Template.generate(**kwargs) of a Template whose namespace is self_namespace:
\* the built-in entries, updated with self.namespace, then with kwargs.
Template_generate(template, self_namespace, kw) ==
    _tt_execute(template.code, update(update(Namespace(<<>>), self_namespace), kw), <<>>)

\* Template.render(**kwargs) of templateNG.py: ns is an empty dict updated
\* with self.namespace, then with kwargs.
Template_render(template, self_namespace, kw) ==
    tt_execute(template.code, update(update(<<>>, self_namespace), kw), <<>>, TRUE)

(***************************************************************************)
(* The templates the model writes: a text is built piece by piece from the *)
(* directives and the loose characters below, each known by a short name.  *)
(***************************************************************************)

\* {% words %}
Directive(words) == <<"{", "%", " ">> \o Chars(words) \o <<" ", "%", "}">>

\* The block structure: the directives that open, continue and close blocks.
NestPieces ==
    {"a", "if", "elif", "else", "for", "while", "try", "except", "finally",
     "block", "apply", "break", "continue", "end"}

\* The templates compiled with templateNG.py.
NGPieces ==
    {"a", "{", "#", "{{ v }}", "{# a #}", "raw v", "autoescape None", "autoescape squeeze",
     "if", "for", "block", "try", "break", "end"}

\* Text, expressions, the escaped delimiters and the directives that take no
\* body.
RenderPieces ==
    {"a", "{", "}", "!", "{{ v }}", "raw v", "auto_escape None", "auto_escape squeeze",
     "autoescape None", "autoescape html_escape", "comment", "{# a #}",
     "{{!", "{%!", "{#!", "extends", "include"}

\* Assignments and loops.
SetPieces == {"set x = 2", "set x = x - 1", "{{ x }}", "while", "for", "end"}

\* A for loop, what its body can hold, and text.
LoopPieces ==
    {"a", "{{ x }}", "for", "break", "continue", "if break", "if continue", "end"}

\* Text with newlines, and directives of each kind, one with a newline in it.
ScanPieces ==
    {"a", "\n", "{", "!", "{{ v }}", "{# a #}", "{#\n#}", "if", "else", "end", "{{!"}

\* Text and expressions.
CallPieces == {"a", "{{ v }}", "raw v"}

PieceText(piece) ==
    CASE piece = "if"       -> Directive(<<"if", " ", "x">>)
      [] piece = "elif"     -> Directive(<<"elif", " ", "x">>)
      [] piece = "for"      -> Directive(<<"for", " ", "x", " ", "in", " ", "xs">>)
      [] piece = "while"    -> Directive(<<"while", " ", "x">>)
      [] piece = "block"    -> Directive(<<"block", " ", "b">>)
      [] piece = "apply"    -> Directive(<<"apply", " ", "f">>)
      [] piece \in {"else", "try", "except", "finally", "break", "continue", "end"}
                            -> Directive(<<piece>>)
      [] piece = "{{ v }}"  -> <<"{", "{", " ", "v", " ", "}", "}">>
      [] piece = "raw v"    -> Directive(<<"raw", " ", "v">>)
      [] piece = "auto_escape None"       -> Directive(<<"auto_escape", " ", "None">>)
      [] piece = "auto_escape squeeze"    -> Directive(<<"auto_escape", " ", "squeeze">>)
      [] piece = "autoescape None"        -> Directive(<<"autoescape", " ", "None">>)
      [] piece = "autoescape html_escape" -> Directive(<<"autoescape", " ", "html_escape">>)
      [] piece = "autoescape squeeze"     -> Directive(<<"autoescape", " ", "squeeze">>)
      [] piece = "comment"  -> Directive(<<"comment", " ", "a">>)
      [] piece = "{# a #}"  -> <<"{", "#", " ", "a", " ", "#", "}">>
      [] piece = "{{!"      -> <<"{", "{", "!">>
      [] piece = "{%!"      -> <<"{", "%", "!">>
      [] piece = "{#!"      -> <<"{", "#", "!">>
      [] piece = "extends"  -> Directive(<<"extends", " ", "'", "b", "'">>)
      [] piece = "{{ x }}"  -> <<"{", "{", " ", "x", " ", "}", "}">>
      [] piece = "set x = 2"     -> Directive(<<"set", " ", "x", " ", "=", " ", "2">>)
      [] piece = "set x = x - 1" ->
            Directive(<<"set", " ", "x", " ", "=", " ", "x", " ", "-", " ", "1">>)
      [] piece = "if break" ->
            Directive(<<"if", " ", "x">>) \o Directive(<<"break">>) \o Directive(<<"end">>)
      [] piece = "if continue" ->
            Directive(<<"if", " ", "x">>) \o Directive(<<"continue">>) \o Directive(<<"end">>)
      [] piece = "include"  -> Directive(<<"include", " ", "'", "b", "'">>)
      [] piece = "{#\n#}"   -> <<"{", "#", "\n", "#", "}">>
      [] OTHER              -> <<piece>>

\* The number of pieces of a template of the block-structure specification.
MaxPieces == 4

\* The number of pieces of a template that is compiled and rendered.
MaxRenderPieces == 3

\* The number of pieces of a template whose scan is followed.
MaxScanPieces == 4

\* The number of pieces of a template that templateNG.py compiles.
MaxNGPieces == 3

\* The number of pieces of a template with assignments.
MaxSetPieces == 5

\* The number of pieces of a template with a for loop.
MaxLoopPieces == 5

\* The number of pieces of a template that is rendered again and again.
MaxCallPieces == 3

\* The values a render call binds v to.
Values == { StrValue(<<"a", "\"", "b">>), StrValue(<<" ", "<", " ", " ">>), IntValue(12) }

\* The keyword arguments of a render call: none, or v.
Kwargs == {<<>>} \cup { (<<"v">> :> val) : val \in Values }

\* The bindings of x and xs in a render call of a template with loops.
FlowKwargs ==
    { <<>>,
      (<<"x", "s">> :> StrValue(<<"a", "<">>)),
      (<<"x">> :> IntValue(2)) @@ (<<"x", "s">> :> ListValue(<<"0", "1", "b">>)),
      (<<"x">> :> IntValue(1)) @@ (<<"x", "s">> :> StrValue(<<>>)),
      (<<"x">> :> StrValue(<<"<">>)) @@ (<<"x", "s">> :> IntValue(3)) }

\* The namespace argument of the loader's constructor: none, or a dict that
\* binds v.
LoaderNamespaces == { <<>>, (<<"v">> :> StrValue(<<"n">>)) }

\* The auto_escape argument of the constructor: the default, None, a function.
AutoEscapeArgs == { Spell("html_escape"), NoneStr, Spell("squeeze") }

(***************************************************************************)
(* sampan/template.py and sampan/templateNG.py: the loaders                *)
(***************************************************************************)

\* The four loader classes, by module.
LoaderClasses ==
    { [module |-> m, cls |-> c] : m \in {"template", "templateNG"},
                                  c \in {"FileLoader", "StringLoader"} }

\* The files under the FileLoader's directory, by name: a base template with
\* a block, a child and a grandchild that extend it, a plain text, a
\* template that does not parse, one that includes another, and one with two
\* extends directives.
Files ==
    (<<"b">> :> (<<"a">> \o Directive(<<"block", " ", "t">>) \o <<"b">>
                 \o Directive(<<"end">>) \o <<"c">>))
 @@ (<<"c">> :> (Directive(<<"extends", " ", "'", "b", "'">>) \o <<"x">>
                 \o Directive(<<"block", " ", "t">>) \o <<"y">> \o Directive(<<"end">>)))
 @@ (<<"g">> :> (Directive(<<"extends", " ", "'", "c", "'">>)
                 \o Directive(<<"block", " ", "t">>) \o <<"z">> \o Directive(<<"end">>)))
 @@ (<<"p">> :> <<"a">>)
 @@ (<<"e">> :> Directive(<<"end">>))
 @@ (<<"i">> :> (Directive(<<"auto_escape", " ", "None">>)
                 \o Directive(<<"include", " ", "'", "q", "'">>)
                 \o <<"{", "{", " ", "v", " ", "}", "}">>))
 @@ (<<"q">> :> <<"{", "{", " ", "v", " ", "}", "}">>)
 @@ (<<"d">> :> (Directive(<<"extends", " ", "'", "b", "'">>)
                 \o Directive(<<"extends", " ", "'", "p", "'">>)))

\* More files of the directory, which extend in a circle: s extends itself,
\* x extends y and y extends x.
CyclicFiles ==
    (<<"s">> :> Directive(<<"extends", " ", "'", "s", "'">>))
 @@ (<<"x">> :> (Directive(<<"extends", " ", "'", "y", "'">>) \o <<"a">>))
 @@ (<<"y">> :> (Directive(<<"extends", " ", "'", "x", "'">>) \o <<"b">>))

\* Every file of the directory.
AllFiles == Files @@ CyclicFiles

\* What load() is called with: a file name for a FileLoader (the empty name
\* and the name of no file among them), the template string for a StringLoader.
LoadArgs == DOMAIN Files \cup { <<>>, <<"m">> }

\* BaseLoader.__init__ / _Loader.__init__ with the default arguments, as the
\* Template constructor sees the loader.
LoaderObject(l) ==
    [present |-> TRUE,
     auto_escape |-> IF l.module = "template" THEN Spell("html_escape") ELSE NoneStr]

\* The key of the cache: the name loaded, or the StringLoader's own name.
key(l, arg) == IF l.cls = "StringLoader" THEN <<"<string>">> ELSE arg

\* "if not name: raise Exception(msg)", which only template.py has.
missing(l, arg) == l.module = "template" /\ arg = <<>>

\* not_in_templates of a load() that never finds its key
always_not_in_templates(l, arg, cache) == TRUE

\* "name not in self.templates"
not_in_templates(l, arg, cache) == key(l, arg) \notin DOMAIN cache

\* open(file_path) of a FileLoader: the exception, or "" when the file opens.
open(l, arg) ==
    IF l.cls = "StringLoader" \/ arg \in DOMAIN AllFiles THEN ""
    ELSE IF arg = <<>> THEN "IsADirectoryError"
    ELSE "FileNotFoundError"

\* The Template(...) call of load().
construct(l, arg) ==
    IF l.module = "template"
    THEN Template(IF l.cls = "FileLoader" THEN AllFiles[arg] ELSE arg, key(l, arg),
                  LoaderObject(l), Spell("html_escape"))
    ELSE Template_NG(IF l.cls = "FileLoader" THEN AllFiles[arg] ELSE arg, key(l, arg),
                     LoaderObject(l).auto_escape, LoaderObject(l))

\* What a call returns: a Template object, known by the order in which it was
\* constructed, or an exception.
Returned(id)      == [err |-> "", id |-> id]
Exception(cls)    == [err |-> cls, id |-> 0]
NoReturn          == [err |-> None, id |-> 0]

\* The number of Template(...) calls made for a key so far.
count(compiled, k) == IF k \in DOMAIN compiled THEN compiled[k] ELSE 0

\* store of a load() that caches what the constructor left, raised or not
store_failure(l, arg, cache, id, t) ==
    [err |-> t.err,
     templates |-> [k \in DOMAIN cache \cup {key(l, arg)} |->
                       IF k = key(l, arg) THEN [id |-> id, template |-> t]
                       ELSE cache[k]]]

\* self.templates[name] = <the new Template t>, unless its constructor raised.
store(l, arg, cache, id, t) ==
    IF t.err # "" THEN [err |-> t.err, templates |-> cache]
    ELSE [err |-> "",
          templates |-> [k \in DOMAIN cache \cup {key(l, arg)} |->
                            IF k = key(l, arg) THEN [id |-> id, template |-> t]
                            ELSE cache[k]]]

\* The body of "with self.lock:" in load(): the exception that leaves it, or
\* the cache with the new Template under its key; id is the new object.
locked_body(l, arg, cache, id) ==
    IF open(l, arg) # "" THEN [err |-> open(l, arg), templates |-> cache]
    ELSE store(l, arg, cache, id, construct(l, arg))

\* The number of threads that call load() at the same time.
NumThreads == 2

Threads == 1..NumThreads

\* The number of calls made on the loader.
MaxCalls == 4

\* The strs of lo to hi characters.
Strs(chars, lo, hi) == UNION { [1..n -> chars] : n \in lo..hi }

\* The characters of the keys and values of a Properties object.
PropChars == {"k", "=", "\\", " "}

\* The length of a key, the length of a value and the number of entries.
MaxKeyLen == 2

MaxValueLen == 1

MaxProps == 2

\* The characters of a properties file that is loaded, and its length.
InsChars == {"k", "=", "\\", " ", "\n"}

MaxIns == 5

(***************************************************************************)
(* sampan/properties.py: Properties                                        *)
(***************************************************************************)

\* What a call returns or raises, with the str or the entries it leaves.
Unescaped(err, s) == [err |-> err, s |-> s]

\* The loop of unescape over the characters of value: a backslash is taken
\* out and the character after it stands for itself, or for the control
\* character it names; \u is left to the codec.
RECURSIVE Unslash(_, _)
Unslash(value, backslash) ==
    IF value = <<>> THEN <<>>
    ELSE LET c == Head(value)
         IN  IF backslash
             THEN (CASE c = "u" -> <<"\\", "u">>
                     [] c = "t" -> <<"\t">>
                     [] c = "r" -> <<"\r">>
                     [] c = "n" -> <<"\n">>
                     [] c = "f" -> <<"\f">>
                     [] OTHER   -> <<c>>) \o Unslash(Tail(value), FALSE)
             ELSE IF c = "\\" THEN Unslash(Tail(value), TRUE)
             ELSE <<c>> \o Unslash(Tail(value), FALSE)

\* The characters that name no escape of the unicode_escape codec, among
\* those the texts here are written with.
NoEscape == {"k", "=", " ", ":", "|", "#", "!"}

\* bytes.decode("unicode_escape"): two backslashes give one, a backslash and
\* a newline give nothing, a backslash before a character that names no
\* escape stays, and a backslash at the end is an error.
RECURSIVE unicode_escape(_)
unicode_escape(s) ==
    IF s = <<>> THEN Unescaped("", <<>>)
    ELSE IF Head(s) # "\\"
    THEN LET rest == unicode_escape(Tail(s))
         IN  Unescaped(rest.err, <<Head(s)>> \o rest.s)
    ELSE IF Len(s) = 1 THEN Unescaped("UnicodeDecodeError", <<>>)
    ELSE LET rest == unicode_escape(SubSeq(s, 3, Len(s)))
         IN  CASE s[2] = "\\" -> Unescaped(rest.err, <<"\\">> \o rest.s)
               [] s[2] = "\n" -> rest
               [] s[2] = "n"  -> Unescaped(rest.err, <<"\n">> \o rest.s)
               [] s[2] = "t"  -> Unescaped(rest.err, <<"\t">> \o rest.s)
               [] s[2] = "r"  -> Unescaped(rest.err, <<"\r">> \o rest.s)
               [] s[2] = "f"  -> Unescaped(rest.err, <<"\f">> \o rest.s)
               [] s[2] \in NoEscape -> Unescaped(rest.err, <<"\\", s[2]>> \o rest.s)
               [] OTHER       -> Unescaped("UnicodeDecodeError", <<>>)

\* Properties.unescape(value)
unescape(value) == unicode_escape(Unslash(value, FALSE))

\* OrderedDict.__setitem__: the value of a key it has is replaced where it
\* stands, a new key goes to the end.
setProperty(p, k, value) ==
    IF \E i \in 1..Len(p) : p[i].key = k
    THEN [i \in 1..Len(p) |-> IF p[i].key = k THEN [key |-> k, value |-> value] ELSE p[i]]
    ELSE Append(p, [key |-> k, value |-> value])

\* ins.readlines(): the lines, each with the newline that ends it.
RECURSIVE ReadLines(_, _)
ReadLines(s, line) ==
    IF s = <<>> THEN IF line = <<>> THEN <<>> ELSE <<line>>
    ELSE IF Head(s) = "\n" THEN <<Append(line, "\n")>> \o ReadLines(Tail(s), <<>>)
    ELSE ReadLines(Tail(s), Append(line, Head(s)))

readlines(ins) == ReadLines(ins, <<>>)

\* len(re_tail.search(line).group(1)): the number of backslashes the line
\* ends with.
RECURSIVE re_tail(_)
re_tail(line) ==
    IF line # <<>> /\ line[Len(line)] = "\\"
    THEN 1 + re_tail(SubSeq(line, 1, Len(line) - 1))
    ELSE 0

\* The while loop of load over a line that ends in a backslash: with an odd
\* number of them the last is cut and the next line, stripped, is joined on
\* (next() raises StopIteration when there is none); with an even number the
\* body changes nothing and the loop does not end.
RECURSIVE Continuation(_, _)
Continuation(line, lines) ==
    IF line = <<>> \/ line[Len(line)] # "\\"
    THEN [err |-> "", line |-> line, lines |-> lines]
    ELSE IF re_tail(line) % 2 = 1
    THEN IF lines = <<>> THEN [err |-> "StopIteration", line |-> line, lines |-> lines]
         ELSE Continuation(SubSeq(line, 1, Len(line) - 1) \o strip(Head(lines)), Tail(lines))
    ELSE [err |-> "<no return>", line |-> line, lines |-> lines]

\* The first index from j on whose character is not in chars.
RECURSIVE Skip(_, _, _)
Skip(line, j, chars) ==
    IF j <= Len(line) /\ line[j] \in chars THEN Skip(line, j + 1, chars) ELSE j

NoProperty == [m |-> FALSE, key |-> <<>>, value |-> <<>>]

\* re_property matches with a key of i characters: the key does not end in a
\* backslash and, after any whitespace, one of = | : follows.
PropertyAt(line, i) ==
    /\ line[i] # "\\"
    /\ Skip(line, i + 1, Whitespace) <= Len(line)
    /\ line[Skip(line, i + 1, Whitespace)] \in {"=", "|", ":"}

\* re_property.match(line): (.+?)(?<!\\)(?:\s*[=|:]\s*)(.*), with the shortest
\* key that matches.
re_property(line) ==
    IF \E i \in 1..Len(line) : PropertyAt(line, i)
    THEN LET i == CHOOSE i \in 1..Len(line) :
                      PropertyAt(line, i) /\ \A h \in 1..(i - 1) : ~PropertyAt(line, h)
         IN  [m |-> TRUE, key |-> SubSeq(line, 1, i),
              value |-> SubSeq(line,
                               Skip(line, Skip(line, i + 1, Whitespace) + 1, Whitespace),
                               Len(line))]
    ELSE NoProperty

\* re_property_space matches with a key of i characters: the key does not end
\* in a backslash, blanks follow, and at least one character, the last blank
\* when there is no other, is left for the value.
SpaceAt(line, i) ==
    /\ i < Len(line)
    /\ line[i] # "\\"
    /\ line[i + 1] = " "
    /\ \/ Skip(line, i + 1, {" "}) <= Len(line)
       \/ Skip(line, i + 1, {" "}) - (i + 1) >= 2

\* re_property_space.match(line): (.+?)(?<!\\)(?:[ ]+)(.+)
re_property_space(line) ==
    IF \E i \in 1..Len(line) : SpaceAt(line, i)
    THEN LET i == CHOOSE i \in 1..Len(line) :
                      SpaceAt(line, i) /\ \A h \in 1..(i - 1) : ~SpaceAt(line, h)
         IN  [m |-> TRUE, key |-> SubSeq(line, 1, i),
              value |-> IF Skip(line, i + 1, {" "}) <= Len(line)
                        THEN SubSeq(line, Skip(line, i + 1, {" "}), Len(line))
                        ELSE <<" ">>]
    ELSE NoProperty

\* What load leaves: the exception ("" when it returns) and the entries set.
Loaded(err, p) == [err |-> err, props |-> p]

RECURSIVE LoadLines(_, _)

\* The body of the loop of load from the match on.
LoadMatch(line, lines, p) ==
    LET m == IF re_property(line).m THEN re_property(line) ELSE re_property_space(line)
    IN  IF ~m.m THEN Loaded("PropertiesError", p)
        ELSE IF unescape(m.key).err # "" THEN Loaded(unescape(m.key).err, p)
        ELSE IF unescape(m.value).err # "" THEN Loaded(unescape(m.value).err, p)
        ELSE LoadLines(lines, setProperty(p, unescape(m.key).s, unescape(m.value).s))

\* The body of the loop of load from the while loop on.
LoadLine(c, p) ==
    IF c.err # "" THEN Loaded(c.err, p) ELSE LoadMatch(c.line, c.lines, p)

\* The for loop of load over the lines not yet read.
LoadLines(lines, p) ==
    IF lines = <<>> THEN Loaded("", p)
    ELSE IF strip(Head(lines)) = <<>> \/ strip(Head(lines))[1] \in {"#", "!"}
    THEN LoadLines(Tail(lines), p)
    ELSE LoadLine(Continuation(strip(Head(lines)), Tail(lines)), p)

\* Properties.load(ins) on a Properties object that holds the entries p
Properties_load(ins, p) == LoadLines(readlines(ins), p)

\* The lines store writes for the entries: key=value, as they are.
RECURSIVE StoreLines(_)
StoreLines(p) ==
    IF p = <<>> THEN <<>>
    ELSE <<"\n">> \o p[1].key \o <<"=">> \o p[1].value \o StoreLines(Tail(p))

\* Properties.store(out) with no comments: a comment line with the date,
\* written here as one letter, then one line for each entry, joined by
\* newlines.
Properties_store(p) == <<"#", " ", "T">> \o StoreLines(p)


VARIABLES
    pieces,    \* the names of the pieces written so far
    text,      \* the template source they spell
    resT,      \* what template.py's _parse made of the text
    tmplT,     \* the template.py Template compiled from the text
    arg_auto_escape, \* the auto_escape (autoescape) argument of the constructor call
    outT,      \* what its generate() returned or raised
    kwargs,    \* the keyword arguments of that generate() or render() call
    tmplNG,    \* the templateNG.py Template compiled from the text
    outNG,     \* what its render() returned or raised
    loader,    \* the loader: its module and class
    templates, \* loader.templates: key -> the Template object cached
    lock,      \* loader.lock, an RLock: the thread that owns it (0: none)
    compiles,  \* key -> the number of Template(...) calls load() has made for it
    calls,     \* the number of calls made on the loader
    call,      \* the latest call of the sequential caller and what it returned
    pc,        \* each thread's position in load()
    obj,       \* each thread's argument of load()
    ret,       \* what each thread's latest load() returned or raised
    loader_namespace, \* the namespace the loader was constructed with
    namespaceT, \* Template.namespace of the template.py Template
    namespaceNG, \* Template.namespace of the templateNG.py Template
    props,     \* Properties._props of the Properties object p: its entries in order
    ins,       \* the text of the file that p was stored to or that is loaded
    loaded     \* what load() of that file into an empty Properties object left

templateVars ==
    <<pieces, text, resT, tmplT, arg_auto_escape, outT, kwargs, tmplNG, outNG>>

loaderVars == <<loader, templates, lock, compiles, calls, call, pc, obj, ret>>

namespaceVars == <<loader_namespace, namespaceT, namespaceNG>>

propertiesVars == <<props, ins, loaded>>

vars == <<templateVars, loaderVars, namespaceVars, propertiesVars>>

\* No result yet.
NotParsed ==
    [err |-> None, msg |-> "", chunks |-> <<>>, pos |-> 0, line |-> 1, ae |-> NoneStr,
     seen |-> <<>>]

NotCompiled == TemplateObject(None, "", <<>>, NoneStr, <<>>, <<>>)

NotRendered == Raised(None)

NoCall == [op |-> None, arg |-> <<>>, ret |-> NoReturn, compiled |-> FALSE]

InitTemplate ==
    /\ pieces = <<>>
    /\ text = <<>>
    /\ resT = NotParsed
    /\ tmplT = NotCompiled
    /\ arg_auto_escape = NoneStr
    /\ outT = NotRendered
    /\ kwargs = <<>>
    /\ tmplNG = NotCompiled
    /\ outNG = NotRendered

\* loader = FileLoader() or StringLoader() of one of the modules
InitLoader(classes) ==
    /\ loader \in classes
    /\ templates = <<>>
    /\ lock = 0
    /\ compiles = <<>>
    /\ calls = 0
    /\ call = NoCall
    /\ pc = [t \in Threads |-> "idle"]
    /\ obj = [t \in Threads |-> <<>>]
    /\ ret = [t \in Threads |-> NoReturn]

\* loader = Loader(namespace=...); no Template yet
\* No file yet, nothing loaded.
NotLoaded == Loaded(None, <<>>)

\* p = Properties(); no file
InitProperties(texts) ==
    /\ props = <<>>
    /\ ins \in texts
    /\ loaded = NotLoaded

InitNamespace(namespaces) ==
    /\ loader_namespace \in namespaces
    /\ namespaceT = <<>>
    /\ namespaceNG = <<>>

\* The author appends one more piece to the template source.
Write(from, max) ==
    /\ resT = NotParsed /\ tmplT = NotCompiled /\ tmplNG = NotCompiled
    /\ Len(pieces) < max
    /\ \E p \in from :
          /\ pieces' = Append(pieces, p)
          /\ text' = text \o PieceText(p)
    /\ UNCHANGED <<resT, tmplT, arg_auto_escape, outT, kwargs, tmplNG, outNG>>
    /\ UNCHANGED loaderVars
    /\ UNCHANGED namespaceVars
    /\ UNCHANGED propertiesVars

InitAuthor ==
    /\ InitTemplate
    /\ InitLoader({[module |-> "template", cls |-> "FileLoader"]})
    /\ InitNamespace({<<>>})
    /\ InitProperties({NoneStr})

(***************************************************************************)
(* The block structure as template.py parses it                            *)
(***************************************************************************)
WriteNest == Write(NestPieces, MaxPieces)

\* Template.__init__: _parse(self, _TemplateReader(to_str(template_string)))
ParseNest ==
    /\ resT = NotParsed
    /\ resT' = _parse(text, TemplateReader(Spell("html_escape")), None, None, <<>>)
    /\ UNCHANGED <<pieces, text, tmplT, arg_auto_escape, outT, kwargs, tmplNG, outNG>>
    /\ UNCHANGED loaderVars
    /\ UNCHANGED namespaceVars
    /\ UNCHANGED propertiesVars

NextNest == WriteNest \/ ParseNest

SpecNest == InitAuthor /\ [][NextNest]_vars

\* The same, of texts with newlines.
WriteScan == Write(ScanPieces, MaxScanPieces)

NextScan == WriteScan \/ ParseNest

SpecScan == InitAuthor /\ [][NextScan]_vars

(***************************************************************************)
(* Compiling and rendering with template.py                                *)
(***************************************************************************)
WriteRender == Write(RenderPieces, MaxRenderPieces)

\* t = Template(text, auto_escape=...)
CompileT ==
    /\ tmplT = NotCompiled
    /\ \E ae \in AutoEscapeArgs :
          /\ arg_auto_escape' = ae
          /\ tmplT' = Template(text, <<"<string>">>, NoLoader, ae)
    /\ namespaceT' = <<>>
    /\ UNCHANGED <<pieces, text, resT, outT, kwargs, tmplNG, outNG>>
    /\ UNCHANGED loaderVars
    /\ UNCHANGED <<loader_namespace, namespaceNG>>
    /\ UNCHANGED propertiesVars

\* t.generate(**kwargs)
RenderT ==
    /\ tmplT.err = ""
    /\ outT = NotRendered
    /\ \E kw \in Kwargs :
          /\ kwargs' = kw
          /\ outT' = Generate(tmplT, kw)
    /\ UNCHANGED <<pieces, text, resT, tmplT, arg_auto_escape, tmplNG, outNG>>
    /\ UNCHANGED loaderVars
    /\ UNCHANGED namespaceVars
    /\ UNCHANGED propertiesVars

NextRender == WriteRender \/ CompileT \/ RenderT

SpecRender == InitAuthor /\ [][NextRender]_vars

(***************************************************************************)
(* A Template of a loader, rendered any number of times                    *)
(***************************************************************************)

\* t = Template(text, loader=loader) of template.py, auto_escape left to its
\* default
ConstructT ==
    /\ tmplT = NotCompiled
    /\ tmplT' = Template(text, <<"<string>">>,
                         LoaderObject([module |-> "template", cls |-> "StringLoader"]),
                         Spell("html_escape"))
    /\ namespaceT' = Template_namespace_of(loader_namespace)
    /\ UNCHANGED <<pieces, text, resT, arg_auto_escape, outT, kwargs, tmplNG, outNG>>
    /\ UNCHANGED loaderVars
    /\ UNCHANGED <<loader_namespace, namespaceNG>>
    /\ UNCHANGED propertiesVars

\* t.generate(**kwargs), the first call or a later one: generate() assigns to
\* its own dict and to nothing of the Template or the loader.
generate_call(kws) ==
    /\ tmplT.err = ""
    /\ \E kw \in kws :
          /\ kwargs' = kw
          /\ outT' = Template_generate(tmplT, namespaceT, kw)
    /\ UNCHANGED <<pieces, text, resT, tmplT, arg_auto_escape, tmplNG, outNG>>
    /\ UNCHANGED loaderVars
    /\ UNCHANGED namespaceVars
    /\ UNCHANGED propertiesVars

\* t = Template(text, loader=loader) of templateNG.py
ConstructNG ==
    /\ tmplNG = NotCompiled
    /\ tmplNG' = Template_NG(text, <<"<string>">>, NoneStr,
                             LoaderObject([module |-> "templateNG", cls |-> "StringLoader"]))
    /\ namespaceNG' = Template_namespace_with(loader_namespace)
    /\ UNCHANGED <<pieces, text, resT, tmplT, arg_auto_escape, outT, kwargs, outNG>>
    /\ UNCHANGED loaderVars
    /\ UNCHANGED <<loader_namespace, namespaceT>>
    /\ UNCHANGED propertiesVars

\* t.render(**kwargs), the first call or a later one
render_call(kws) ==
    /\ tmplNG.err = ""
    /\ \E kw \in kws :
          /\ kwargs' = kw
          /\ outNG' = Template_render(tmplNG, namespaceNG, kw)
    /\ UNCHANGED <<pieces, text, resT, tmplT, arg_auto_escape, outT, tmplNG>>
    /\ UNCHANGED loaderVars
    /\ UNCHANGED namespaceVars
    /\ UNCHANGED propertiesVars

WriteCalls == Write(CallPieces, MaxCallPieces)

GenerateCalls == generate_call(Kwargs)

RenderCalls == render_call(Kwargs)

\* A loader with or without a namespace of its own.
InitCalls ==
    /\ InitTemplate
    /\ InitLoader({[module |-> "template", cls |-> "StringLoader"]})
    /\ InitNamespace(LoaderNamespaces)
    /\ InitProperties({NoneStr})

NextCalls == WriteCalls \/ ConstructT \/ GenerateCalls \/ ConstructNG \/ RenderCalls

SpecCalls == InitCalls /\ [][NextCalls]_vars

(***************************************************************************)
(* Assignments and loops in template.py                                    *)
(***************************************************************************)
WriteSet == Write(SetPieces, MaxSetPieces)

WriteLoop == Write(LoopPieces, MaxLoopPieces)

GenerateFlow == generate_call(FlowKwargs)

NextSet == WriteSet \/ ConstructT \/ GenerateFlow

SpecSet == InitAuthor /\ [][NextSet]_vars

NextLoop == WriteLoop \/ ConstructT \/ GenerateFlow

SpecLoop == InitAuthor /\ [][NextLoop]_vars

(***************************************************************************)
(* Compiling and rendering with templateNG.py                              *)
(***************************************************************************)
WriteNG == Write(NGPieces, MaxNGPieces)

\* t = Template(text, autoescape=...)
CompileNG ==
    /\ tmplNG = NotCompiled
    /\ \E ae \in AutoEscapeArgs :
          /\ arg_auto_escape' = ae
          /\ tmplNG' = Template_NG(text, <<"<string>">>, ae, NoLoader)
    /\ namespaceNG' = Template_namespace_with(<<>>)
    /\ UNCHANGED <<pieces, text, resT, tmplT, outT, kwargs, outNG>>
    /\ UNCHANGED loaderVars
    /\ UNCHANGED <<loader_namespace, namespaceT>>
    /\ UNCHANGED propertiesVars

\* t.render(**kwargs)
RenderNG ==
    /\ tmplNG.err = ""
    /\ outNG = NotRendered
    /\ \E kw \in Kwargs :
          /\ kwargs' = kw
          /\ outNG' = render(tmplNG, kw)
    /\ UNCHANGED <<pieces, text, resT, tmplT, arg_auto_escape, outT, tmplNG>>
    /\ UNCHANGED loaderVars
    /\ UNCHANGED namespaceVars
    /\ UNCHANGED propertiesVars

NextNG == WriteNG \/ CompileNG \/ RenderNG

SpecNG == InitAuthor /\ [][NextNG]_vars

(***************************************************************************)
(* One caller: load() and reset() calls in a row                           *)
(***************************************************************************)

\* compiles with one more Template(...) call for the key k
Counted(k) == [n \in DOMAIN compiles \cup {k} |-> IF n = k THEN count(compiles, k) + 1
                                                   ELSE compiles[n]]

\* loader.load(arg), from the call to its return
Load ==
    /\ calls < MaxCalls
    /\ calls' = calls + 1
    /\ \E arg \in LoadArgs :
          IF missing(loader, arg)
          THEN /\ call' = [op |-> "load", arg |-> arg, ret |-> Exception("Exception"),
                           compiled |-> FALSE]
               /\ UNCHANGED <<templates, compiles>>
          ELSE IF ~not_in_templates(loader, arg, templates)
          THEN /\ call' = [op |-> "load", arg |-> arg,
                           ret |-> Returned(templates[key(loader, arg)].id),
                           compiled |-> FALSE]
               /\ UNCHANGED <<templates, compiles>>
          ELSE /\ templates' = locked_body(loader, arg, templates,
                                           count(compiles, key(loader, arg)) + 1).templates
               /\ compiles' = IF open(loader, arg) = "" THEN Counted(key(loader, arg))
                               ELSE compiles
               /\ call' = [op |-> "load", arg |-> arg,
                           ret |-> IF key(loader, arg) \in DOMAIN templates'
                                   THEN Returned(templates'[key(loader, arg)].id)
                                   ELSE Exception(locked_body(loader, arg, templates, 0).err),
                           compiled |-> open(loader, arg) = ""]
    /\ UNCHANGED <<loader, lock, pc, obj, ret>>
    /\ UNCHANGED templateVars
    /\ UNCHANGED namespaceVars
    /\ UNCHANGED propertiesVars

\* loader.reset()
Reset ==
    /\ calls < MaxCalls
    /\ calls' = calls + 1
    /\ templates' = <<>>
    /\ call' = [op |-> "reset", arg |-> <<>>, ret |-> Returned(0), compiled |-> FALSE]
    /\ UNCHANGED <<loader, lock, compiles, pc, obj, ret>>
    /\ UNCHANGED templateVars
    /\ UNCHANGED namespaceVars
    /\ UNCHANGED propertiesVars

\* A loader of either module and either class, newly constructed.
InitLoaders ==
    InitTemplate /\ InitLoader(LoaderClasses) /\ InitNamespace({<<>>}) /\ InitProperties({NoneStr})

NextSeq == Load \/ Reset

SpecSeq == InitLoaders /\ [][NextSeq]_vars

(***************************************************************************)
(* Several threads in load() at once, a statement at a time                *)
(***************************************************************************)

\* A thread calls loader.load(arg), for one of the given arguments.
load_one_of(t, args) ==
    /\ pc[t] = "idle"
    /\ calls < MaxCalls
    /\ calls' = calls + 1
    /\ \E arg \in args : obj' = [obj EXCEPT ![t] = arg]
    /\ pc' = [pc EXCEPT ![t] = "check"]
    /\ ret' = [ret EXCEPT ![t] = NoReturn]
    /\ UNCHANGED <<loader, templates, lock, compiles, call>>
    /\ UNCHANGED templateVars
    /\ UNCHANGED namespaceVars
    /\ UNCHANGED propertiesVars

\* A thread calls loader.load(arg).
load_call(t) == load_one_of(t, LoadArgs)

\* "if not name: raise" and "if name not in self.templates:"
load_check(t) ==
    /\ pc[t] = "check"
    /\ IF missing(loader, obj[t])
       THEN /\ ret' = [ret EXCEPT ![t] = Exception("Exception")]
            /\ pc' = [pc EXCEPT ![t] = "idle"]
       ELSE /\ pc' = [pc EXCEPT ![t] = IF not_in_templates(loader, obj[t], templates)
                                       THEN "acquire" ELSE "return"]
            /\ UNCHANGED ret
    /\ UNCHANGED <<loader, templates, lock, compiles, calls, call, obj>>
    /\ UNCHANGED templateVars
    /\ UNCHANGED namespaceVars
    /\ UNCHANGED propertiesVars

\* "with self.lock:" entered: the RLock is free, or this thread's already
load_acquire(t) ==
    /\ pc[t] = "acquire"
    /\ lock \in {0, t}
    /\ lock' = t
    /\ pc' = [pc EXCEPT ![t] = "body"]
    /\ UNCHANGED <<loader, templates, compiles, calls, call, obj, ret>>
    /\ UNCHANGED templateVars
    /\ UNCHANGED namespaceVars
    /\ UNCHANGED propertiesVars

\* The body under the lock; an exception leaves the with block, which
\* releases the lock, and the call.
load_body(t) ==
    /\ pc[t] = "body"
    /\ templates' = locked_body(loader, obj[t], templates,
                                count(compiles, key(loader, obj[t])) + 1).templates
    /\ compiles' = IF open(loader, obj[t]) = "" THEN Counted(key(loader, obj[t]))
                    ELSE compiles
    /\ IF locked_body(loader, obj[t], templates, 0).err # ""
       THEN /\ lock' = 0
            /\ ret' = [ret EXCEPT ![t] =
                          Exception(locked_body(loader, obj[t], templates, 0).err)]
            /\ pc' = [pc EXCEPT ![t] = "idle"]
       ELSE /\ pc' = [pc EXCEPT ![t] = "release"]
            /\ UNCHANGED <<lock, ret>>
    /\ UNCHANGED <<loader, calls, call, obj>>
    /\ UNCHANGED templateVars
    /\ UNCHANGED namespaceVars
    /\ UNCHANGED propertiesVars

\* A with block that is left with the lock still held
load_release_held(t) ==
    /\ pc[t] = "release"
    /\ pc' = [pc EXCEPT ![t] = "return"]
    /\ UNCHANGED <<loader, templates, lock, compiles, calls, call, obj, ret>>
    /\ UNCHANGED templateVars
    /\ UNCHANGED namespaceVars
    /\ UNCHANGED propertiesVars

\* The with block is left.
load_release(t) ==
    /\ pc[t] = "release"
    /\ lock' = 0
    /\ pc' = [pc EXCEPT ![t] = "return"]
    /\ UNCHANGED <<loader, templates, compiles, calls, call, obj, ret>>
    /\ UNCHANGED templateVars
    /\ UNCHANGED namespaceVars
    /\ UNCHANGED propertiesVars

\* "return self.templates[name]": the dict is read again, without the lock
load_return(t) ==
    /\ pc[t] = "return"
    /\ ret' = [ret EXCEPT ![t] = IF key(loader, obj[t]) \in DOMAIN templates
                                  THEN Returned(templates[key(loader, obj[t])].id)
                                  ELSE Exception("KeyError")]
    /\ pc' = [pc EXCEPT ![t] = "idle"]
    /\ UNCHANGED <<loader, templates, lock, compiles, calls, call, obj>>
    /\ UNCHANGED templateVars
    /\ UNCHANGED namespaceVars
    /\ UNCHANGED propertiesVars

NextLoad ==
    \E t \in Threads :
        load_call(t) \/ load_check(t) \/ load_acquire(t) \/ load_body(t) \/ load_release(t) \/ load_return(t)

SpecLoad == InitLoaders /\ [][NextLoad]_vars

(***************************************************************************)
(* Threads in load() and in reset() at once                                *)
(***************************************************************************)

\* A thread calls loader.reset().
reset_call(t) ==
    /\ pc[t] = "idle"
    /\ calls < MaxCalls
    /\ calls' = calls + 1
    /\ pc' = [pc EXCEPT ![t] = "reset"]
    /\ ret' = [ret EXCEPT ![t] = NoReturn]
    /\ UNCHANGED <<loader, templates, lock, compiles, call, obj>>
    /\ UNCHANGED templateVars
    /\ UNCHANGED namespaceVars
    /\ UNCHANGED propertiesVars

\* reset's "with self.lock:" entered
reset_acquire(t) ==
    /\ pc[t] = "reset"
    /\ lock \in {0, t}
    /\ lock' = t
    /\ pc' = [pc EXCEPT ![t] = "clear"]
    /\ UNCHANGED <<loader, templates, compiles, calls, call, obj, ret>>
    /\ UNCHANGED templateVars
    /\ UNCHANGED namespaceVars
    /\ UNCHANGED propertiesVars

\* "self.templates.clear()" (templateNG.py: "self.templates = {}"), the with
\* block left and reset returned
reset_clear(t) ==
    /\ pc[t] = "clear"
    /\ templates' = <<>>
    /\ lock' = 0
    /\ ret' = [ret EXCEPT ![t] = Returned(0)]
    /\ pc' = [pc EXCEPT ![t] = "idle"]
    /\ UNCHANGED <<loader, compiles, calls, call, obj>>
    /\ UNCHANGED templateVars
    /\ UNCHANGED namespaceVars
    /\ UNCHANGED propertiesVars

\* The names loaded while resets run: a plain text, a template with a block,
\* a template that does not parse, no name, and a name without a file.
RaceArgs == { <<"p">>, <<"b">>, <<"e">>, <<>>, <<"m">> }

NextRace ==
    \E t \in Threads :
        \/ load_one_of(t, RaceArgs) \/ load_check(t) \/ load_acquire(t) \/ load_body(t)
        \/ load_release(t) \/ load_return(t)
        \/ reset_call(t) \/ reset_acquire(t) \/ reset_clear(t)

\* A FileLoader of either module, newly constructed.
InitRace ==
    /\ InitTemplate
    /\ InitLoader({ l \in LoaderClasses : l.cls = "FileLoader" })
    /\ InitNamespace({<<>>})
    /\ InitProperties({NoneStr})

SpecRace == InitRace /\ [][NextRace]_vars

(***************************************************************************)
(* Threads that load the templates of extends chains                       *)
(***************************************************************************)

\* The names loaded: a file that extends itself, one of two that extend
\* each other, a child and its parent.
ChainArgs == { <<"s">>, <<"x">>, <<"c">>, <<"b">> }

\* A statement of load() in thread t outside the body of its with block
load_step(t) ==
    load_check(t) \/ load_acquire(t) \/ load_release(t) \/ load_return(t)

NextChain == \E t \in Threads : load_one_of(t, ChainArgs) \/ load_step(t) \/ load_body(t)

\* Every thread that can run is run in the end: a thread that waits for the
\* lock runs when the lock stays free, and the body under the lock, which is
\* enabled wherever a thread is at it, is left (WF_vars(load_body(t)), with
\* its ENABLED written out).
FairChain ==
    \A t \in Threads : WF_vars(load_step(t)) /\ []<>(pc[t] # "body")

SpecChain == InitRace /\ [][NextChain]_vars /\ FairChain

(***************************************************************************)
(* A Properties object, stored to a file and loaded from it                *)
(***************************************************************************)

\* p.setProperty(key, value), or p[key] = value
setProperty_call ==
    /\ ins = NoneStr
    /\ Len(props) < MaxProps
    /\ \E k \in Strs(PropChars, 1, MaxKeyLen), value \in Strs(PropChars, 0, MaxValueLen) :
          props' = setProperty(props, k, value)
    /\ UNCHANGED <<ins, loaded>>
    /\ UNCHANGED <<templateVars, loaderVars, namespaceVars>>

\* with open(name, 'w') as f: p.store(f)
store_call ==
    /\ ins = NoneStr
    /\ ins' = Properties_store(props)
    /\ UNCHANGED <<props, loaded>>
    /\ UNCHANGED <<templateVars, loaderVars, namespaceVars>>

\* p2 = Properties(); p2.load(f) with f the file written, or the file typed
properties_load_call ==
    /\ ins # NoneStr
    /\ loaded = NotLoaded
    /\ loaded' = Properties_load(ins, <<>>)
    /\ UNCHANGED <<props, ins>>
    /\ UNCHANGED <<templateVars, loaderVars, namespaceVars>>

NextStore == setProperty_call \/ store_call \/ properties_load_call

SpecStore == InitAuthor /\ [][NextStore]_vars

\* One more character of a properties file is typed.
write_ins ==
    /\ loaded = NotLoaded
    /\ Len(ins) < MaxIns
    /\ \E c \in InsChars : ins' = Append(ins, c)
    /\ UNCHANGED <<props, loaded>>
    /\ UNCHANGED <<templateVars, loaderVars, namespaceVars>>

\* An empty file and an empty Properties object.
InitIns ==
    /\ InitTemplate
    /\ InitLoader({[module |-> "template", cls |-> "FileLoader"]})
    /\ InitNamespace({<<>>})
    /\ InitProperties({<<>>})

NextIns == write_ins \/ properties_load_call

SpecIns == InitIns /\ [][NextIns]_vars

(***************************************************************************)
(* The properties                                                          *)
(***************************************************************************)

\* The pieces of a template are all among ps.
Among(ps) == \A i \in 1..Len(pieces) : pieces[i] \in ps

\* The pieces before the last one, and the last one.
Front(ps) == SubSeq(ps, 1, Len(ps) - 1)
Last(ps)  == ps[Len(ps)]

\* The text holds one of the opening delimiters {{, {% and {#.
HasDelimiter(chars) ==
    \E i \in 1..(Len(chars) - 1) : chars[i] = "{" /\ chars[i + 1] \in {"{", "%", "#"}

\* The directives that open a block with a body.
Openers == {"if", "for", "while", "try", "block", "apply"}

\* The kinds of the blocks that are open after the pieces ps, outermost first;
\* an {% end %} closes the innermost one.
RECURSIVE OpenBlocks(_)
OpenBlocks(ps) ==
    IF ps = <<>> THEN <<>>
    ELSE IF Last(ps) \in Openers THEN Append(OpenBlocks(Front(ps)), Last(ps))
    ELSE IF Last(ps) = "end" /\ OpenBlocks(Front(ps)) # <<>> THEN Front(OpenBlocks(Front(ps)))
    ELSE OpenBlocks(Front(ps))

\* No {% end %} among the pieces ps comes when no block is open.
RECURSIVE NoExtraEnd(_)
NoExtraEnd(ps) ==
    \/ ps = <<>>
    \/ /\ NoExtraEnd(Front(ps))
       /\ Last(ps) = "end" => OpenBlocks(Front(ps)) # <<>>

\* The output the specification gives the pieces ps when v is bound to value
\* and fn is the escaping function in force at their start: text as it is,
\* {{ v }} through the function in force, {% raw v %} without it, and an
\* autoescape directive changing the function for what follows it.
RECURSIVE Rendering(_, _, _)
Rendering(ps, fn, value) ==
    IF ps = <<>> THEN <<>>
    ELSE IF Head(ps) = "{{ v }}"
    THEN (IF fn = NoneStr THEN to_str(value) ELSE Call(Word(fn), to_str(value)))
         \o Rendering(Tail(ps), fn, value)
    ELSE IF Head(ps) = "raw v" THEN to_str(value) \o Rendering(Tail(ps), fn, value)
    ELSE IF Head(ps) \in {"auto_escape None", "autoescape None"}
    THEN Rendering(Tail(ps), NoneStr, value)
    ELSE IF Head(ps) \in {"auto_escape squeeze", "autoescape squeeze"}
    THEN Rendering(Tail(ps), Spell("squeeze"), value)
    ELSE IF Head(ps) = "autoescape html_escape"
    THEN Rendering(Tail(ps), Spell("html_escape"), value)
    ELSE IF Head(ps) \in {"comment", "{# a #}"} THEN Rendering(Tail(ps), fn, value)
    ELSE PieceText(Head(ps)) \o Rendering(Tail(ps), fn, value)

\* C1: a template text without {{, {% and {#, a single { or a { at its end
\* included, compiles, and rendering it returns the text itself whatever the
\* bindings are.  Stated of templateNG.py.
C1_Identity ==
    (tmplNG # NotCompiled /\ ~HasDelimiter(text))
        => /\ tmplNG.err = ""
           /\ outNG # NotRendered => outNG = Output(text)

\* C2: a template that extends a chain of parents, loaded through a loader,
\* renders the root's body with each named block replaced by the body of the
\* most derived template that defines it; what the children hold outside
\* blocks does not appear.
C2_Inheritance ==
    (loader = [module |-> "template", cls |-> "FileLoader"]
        /\ call.op = "load" /\ call.arg \in {<<"c">>, <<"g">>})
        => /\ call.ret.err = ""
           /\ Generate(templates[call.arg].template, <<>>)
                = Output(IF call.arg = <<"c">> THEN <<"a", "y", "c">> ELSE <<"a", "z", "c">>)

\* The calls that were made with one argument and have returned a Template
\* have returned the same object.
C3_SameObject ==
    \A t1, t2 \in Threads :
        (obj[t1] = obj[t2] /\ ret[t1].err = "" /\ ret[t2].err = "")
            => ret[t1].id = ret[t2].id

\* A step leaves every entry of the cache as it is.
C3_NoOverwrite ==
    \A k \in DOMAIN templates : k \in DOMAIN templates' /\ templates'[k] = templates[k]

\* C3: whatever the interleaving of concurrent load() calls for one name, the
\* template is compiled and inserted at most once: no cached entry is
\* overwritten and all the calls return the same Template object.
C3_CompiledOnce == [](C3_SameObject) /\ [][C3_NoOverwrite]_vars

\* What every call of a sequential series does to the cache: load() keeps
\* every entry as it is, reset() removes them all, and a load() that finds
\* nothing under its key constructs the Template.
C4_Cache ==
    /\ call'.op = "load" =>
          \A k \in DOMAIN templates : k \in DOMAIN templates' /\ templates'[k] = templates[k]
    /\ call'.op = "reset" => templates' = <<>>
    /\ (call'.op = "load" /\ key(loader, call'.arg) \notin DOMAIN templates
            /\ call'.ret.err = "") => call'.compiled

\* A load() of a key that is cached returns the cached object and constructs
\* nothing.
C4_Hit ==
    /\ call'.ret = Returned(templates[key(loader, call'.arg)].id)
    /\ ~call'.compiled
    /\ compiles' = compiles

\* C4, as the claim states it: every load() of a cached name returns the
\* cached Template without compiling again; load() never replaces or removes
\* an entry; only reset() removes entries, and removes them all.
C4_AnyLoadOfCached ==
    [][/\ C4_Cache
       /\ (call'.op = "load" /\ key(loader, call'.arg) \in DOMAIN templates) => C4_Hit]_vars

\* C4: the same, for a load() whose argument is not empty: an empty argument
\* makes the loaders of template.py raise before they look at the cache,
\* which they leave as it is.
C4_FirstLoadWins ==
    [][/\ C4_Cache
       /\ (call'.op = "load" /\ key(loader, call'.arg) \in DOMAIN templates
              /\ call'.arg # <<>>) => C4_Hit
       /\ (call'.op = "load" /\ call'.arg = <<>> /\ call'.ret.err # "")
              => templates' = templates /\ compiles' = compiles]_vars

\* A load() has returned the cached Template of a key that was reset and
\* constructed a second time.
C4_Witness ==
    /\ call.op = "load" /\ call.arg # <<>>
    /\ call.ret.err = "" /\ ~call.compiled
    /\ count(compiles, key(loader, call.arg)) = 2

\* C5: when the text ends while a block opened by if, for, while, try, block
\* or apply is open, compiling fails with a parse error.  Stated of
\* templateNG.py.
C5_MissingEnd ==
    (tmplNG # NotCompiled /\ Among({"a", "end"} \cup Openers)
        /\ NoExtraEnd(pieces) /\ OpenBlocks(pieces) # <<>>)
        => tmplNG.err = "TemplateParseError"

\* C6: an {% end %} met when no block is open makes compiling fail with a
\* parse error; the template is not accepted, and no text after the {% end %}
\* is dropped from a compiled template.  Stated of templateNG.py.
C6_ExtraEnd ==
    (tmplNG # NotCompiled /\ Among({"a", "end"}) /\ ~Among({"a"}))
        => /\ tmplNG.err = "TemplateParseError"
           /\ (tmplNG.err = "" /\ outNG # NotRendered) =>
                 /\ outNG.err = ""
                 /\ Len(outNG.out) = Cardinality({i \in 1..Len(pieces) : pieces[i] = "a"})

\* C7: {% break %} is accepted exactly where a for or while block is open
\* around it, and is a parse error anywhere else.  Stated of templateNG.py,
\* for templates whose blocks are all closed.
C7_BreakInLoop ==
    (tmplNG # NotCompiled /\ Among({"a", "for", "break", "end"})
        /\ (\E i \in 1..Len(pieces) : pieces[i] = "break")
        /\ NoExtraEnd(pieces) /\ OpenBlocks(pieces) = <<>>)
        => IF \A i \in 1..Len(pieces) :
                 pieces[i] = "break" => OpenBlocks(SubSeq(pieces, 1, i - 1)) # <<>>
           THEN tmplNG.err = ""
           ELSE tmplNG.err = "TemplateParseError"

\* The directives that continue a block.
Intermediates == {"else", "elif", "except", "finally"}

\* The template ends with a directive that continues a block, after text
\* and blocks that are opened and closed in order.
EndsWithIntermediate ==
    /\ resT # NotParsed
    /\ pieces # <<>>
    /\ Last(pieces) \in Intermediates
    /\ \A i \in 1..(Len(pieces) - 1) : pieces[i] \in {"a", "end"} \cup Openers
    /\ NoExtraEnd(Front(pieces))

\* The parser took the last directive (and then missed the end of the block
\* it continues) exactly when the innermost open block is among the kinds
\* the table gives the directive; otherwise it raised for the directive.
Placement(table) ==
    EndsWithIntermediate =>
        IF OpenBlocks(pieces) # <<>> /\ Last(OpenBlocks(pieces)) \in table[Last(pieces)]
        THEN resT.msg = "Missing end block"
        ELSE /\ resT.err = "TemplateError"
             /\ resT.msg \in {"<operator> outside <allowed_parents> block",
                              "<operator> block cannot be attached to <in_block> block"}

\* C8, as the claim states it: elif only directly inside if, except and
\* finally only directly inside try, else only directly inside if or try.
C8_ElseInIfOrTry ==
    Placement([else |-> {"if", "try"}, elif |-> {"if"},
               except |-> {"try"}, finally |-> {"try"}])

\* C8: an intermediate directive is accepted only when the innermost open
\* block is of a kind it continues: elif directly inside if, except and
\* finally directly inside try, else directly inside if, for, while or try;
\* anywhere else it is a parse error.
C8_Placement ==
    Placement([else |-> {"if", "for", "while", "try"}, elif |-> {"if"},
               except |-> {"try"}, finally |-> {"try"}])

\* An else directly inside a loop, after two pieces or more, was taken.
C8_Witness ==
    /\ EndsWithIntermediate
    /\ Len(pieces) >= 3
    /\ OpenBlocks(pieces) # <<>>
    /\ Last(OpenBlocks(pieces)) \in {"for", "while"}
    /\ Last(pieces) = "else"
    /\ resT.msg = "Missing end block"

\* C9: with an escaping function in force, {{ v }} gives the function applied
\* to the value as a string and {% raw v %} gives the value as a string
\* without it; with none in force both give the value as a string.
C9_EscapingAndRaw ==
    (outT # NotRendered /\ Among({"a", "{{ v }}", "raw v", "comment", "{# a #}"})
        /\ <<"v">> \in DOMAIN kwargs)
        => outT = Output(Rendering(pieces, arg_auto_escape, kwargs[<<"v">>]))

\* A value with a double quote went through html_escape in {{ v }} and past
\* it in {% raw v %}, in one template.
C9_Witness ==
    /\ outT.err = ""
    /\ \E i, j \in 1..Len(pieces) : pieces[i] = "{{ v }}" /\ pieces[j] = "raw v"
    /\ arg_auto_escape = Spell("html_escape")
    /\ <<"v">> \in DOMAIN kwargs
    /\ kwargs[<<"v">>] = StrValue(<<"a", "\"", "b">>)
    /\ outT.out # Rendering(pieces, NoneStr, kwargs[<<"v">>])

\* C10: an autoescape directive is accepted and changes the escaping function
\* only for the expressions after it: each expression is escaped with the
\* function of the nearest directive before it, and with the template's
\* default when there is none.  Stated of template.py and its directive
\* auto_escape.
C10_Positional ==
    (tmplT # NotCompiled
        /\ Among({"a", "{{ v }}", "auto_escape None", "auto_escape squeeze"}))
        => /\ tmplT.err = ""
           /\ (outT # NotRendered /\ <<"v">> \in DOMAIN kwargs) =>
                 outT = Output(Rendering(pieces, arg_auto_escape, kwargs[<<"v">>]))

\* C11: the expressions of an included template are escaped with the included
\* template's own autoescape setting and the includer's expressions after the
\* include with the includer's own: file i switches escaping off and includes
\* q, which has the loader's default (html_escape), so i renders v once
\* escaped (from q) and once as it is (from i).
C11_Include ==
    (loader = [module |-> "template", cls |-> "FileLoader"]
        /\ call.op = "load" /\ call.arg = <<"i">>)
        => /\ call.ret.err = ""
           /\ Generate(templates[<<"i">>].template,
                       (<<"v">> :> StrValue(<<" ", "<", " ", " ">>)))
                = Output(escape(<<" ", "<", " ", " ">>) \o <<" ", "<", " ", " ">>)

\* C12: compiling a template that holds an extends directive or an include
\* directive while no loader is attached fails with a TemplateError and gives
\* no Template; stated for each of the two directives.
C12_NoLoader ==
    (tmplT # NotCompiled
        /\ \E i \in 1..Len(pieces) : pieces[i] \in {"extends", "include"})
        => tmplT.err = "TemplateError"

\* The lock is held only by a thread that is inside "with self.lock:".
C13_LockReleased == lock # 0 => pc[lock] \in {"body", "release"}

\* A step in which a load() fails leaves the cache as it was, with no entry
\* for the name it was called with, and the failing thread without the lock.
C13_Failure ==
    \A t \in Threads :
        (ret'[t] # ret[t] /\ ret'[t].err \notin {"", None})
            => /\ templates' = templates
               /\ obj[t] \notin DOMAIN templates'
               /\ obj[t] # <<>> => key(loader, obj[t]) \notin DOMAIN templates'
               /\ lock' # t
               /\ pc'[t] = "idle"

\* A load() of a name that is given and not cached goes for the lock and,
\* when the file opens, constructs the Template, whatever happened to the
\* earlier loads of the name.
C13_Retry ==
    \A t \in Threads :
        /\ (pc[t] = "check" /\ pc'[t] # "check" /\ ~missing(loader, obj[t])
                /\ key(loader, obj[t]) \notin DOMAIN templates)
              => pc'[t] = "acquire"
        /\ (pc[t] = "body" /\ pc'[t] # "body" /\ open(loader, obj[t]) = "")
              => count(compiles', key(loader, obj[t]))
                    = count(compiles, key(loader, obj[t])) + 1

\* C13: a load that fails (empty name, file missing, or a template that does
\* not compile) leaves the cache without an entry for that name and as it was
\* for all other names, releases the loader's lock, and a later load of the
\* same name attempts the load again.
C13_FailedLoad == [](C13_LockReleased) /\ [][C13_Failure /\ C13_Retry]_vars

\* Two loads of the file that does not parse have failed, each after
\* constructing the Template, with another name cached and the lock free.
C13_Witness ==
    /\ loader = [module |-> "template", cls |-> "FileLoader"]
    /\ \A t \in Threads : obj[t] = <<"e">> /\ ret[t].err = "TemplateError"
    /\ count(compiles, <<"e">>) = 2
    /\ DOMAIN templates = {<<"p">>}
    /\ lock = 0

\* What v is in a render call: the call's binding when it has one, the
\* namespace's entry otherwise.
Bound(kw, ns) ==
    IF <<"v">> \in DOMAIN kw THEN Value(kw[<<"v">>])
    ELSE IF <<"v">> \in DOMAIN ns THEN Value(ns[<<"v">>])
    ELSE NoValue("NameError")

HasExpression == \E i \in 1..Len(pieces) : pieces[i] \in {"{{ v }}", "raw v"}

\* What generate() of template.py returns for the pieces written, with the
\* default html_escape.
ExpectedT(v) ==
    IF ~HasExpression THEN Output(text)
    ELSE IF v.err # "" THEN Raised(v.err)
    ELSE Output(Rendering(pieces, Spell("html_escape"), v.v))

\* What render() of templateNG.py returns for them, with no autoescape: the
\* value as it is, which has to be a str.
ExpectedNG(v) ==
    IF ~HasExpression THEN Output(text)
    ELSE IF v.err # "" THEN Raised(v.err)
    ELSE IF v.v.t # "str" THEN Raised("TypeError")
    ELSE Output(Rendering(pieces, NoneStr, v.v))

\* A generate() call of template.py
C14_Generate ==
    GenerateCalls =>
        /\ tmplT' = tmplT /\ namespaceT' = namespaceT /\ loader_namespace' = loader_namespace
        /\ namespaceT = loader_namespace
        /\ outT' = ExpectedT(Bound(kwargs', loader_namespace))

\* A render() call of templateNG.py
C14_Render ==
    RenderCalls =>
        /\ tmplNG' = tmplNG /\ namespaceNG' = namespaceNG /\ loader_namespace' = loader_namespace
        /\ \A n \in DOMAIN loader_namespace : namespaceNG[n] = loader_namespace[n]
        /\ outNG' = ExpectedNG(Bound(kwargs', loader_namespace))

\* C14: a render call, the first or a later one, leaves the Template (its
\* autoescape setting and compiled code among the rest), its namespace and
\* the loader's namespace as they were; what it returns is decided by the
\* call's own bindings, which come before namespace entries of the same name,
\* and by nothing an earlier call was given.
C14_RenderFrame == [][C14_Generate /\ C14_Render]_vars

\* A call has bound v, which the loader's namespace binds too, and the
\* binding of the call is what both templates have rendered.
C14_Witness ==
    /\ <<"v">> \in DOMAIN loader_namespace
    /\ kwargs = (<<"v">> :> StrValue(<<" ", "<", " ", " ">>))
    /\ HasExpression
    /\ outT = ExpectedT(Value(kwargs[<<"v">>]))
    /\ outNG = ExpectedNG(Value(kwargs[<<"v">>]))
    /\ outT # ExpectedT(Value(loader_namespace[<<"v">>]))

\* C15: within one render call a name that {% set %} binds or updates inside
\* a for or while body keeps its value on the later iterations and after the
\* loop, so that a while loop whose condition reads a variable its body
\* updates goes round the expected number of times: x counted down from 2
\* gives 2 and 1 in the loop and 0 after it, whether x got the 2 from a set
\* before the loop or from the render call; a set in a for body is seen after
\* the loop.
C15_SetInLoop ==
    outT # NotRendered =>
        /\ pieces = <<"set x = 2", "while", "{{ x }}", "set x = x - 1", "end">>
              => outT = Output(<<"2", "1">>)
        /\ (pieces = <<"while", "{{ x }}", "set x = x - 1", "end", "{{ x }}">>
                /\ <<"x">> \in DOMAIN kwargs /\ kwargs[<<"x">>] = IntValue(2))
              => outT = Output(<<"2", "1", "0">>)
        /\ (pieces = <<"for", "set x = 2", "end", "{{ x }}">>
                /\ <<"x", "s">> \in DOMAIN kwargs /\ kwargs[<<"x", "s">>] = StrValue(<<"a", "<">>))
              => outT = Output(<<"2">>)

\* C16: an if chain renders the body of the first arm whose condition is
\* true and of no other arm.  Stated of templateNG.py for what comes before
\* any rendering: a template of text and closed if blocks compiles to a
\* Template.
C16_Conditional ==
    (tmplNG # NotCompiled /\ Among({"a", "if", "end"})
        /\ (\E i \in 1..Len(pieces) : pieces[i] = "if")
        /\ NoExtraEnd(pieces) /\ OpenBlocks(pieces) = <<>>)
        => tmplNG.err = ""

\* One for loop with text before and after it: the places of its for and its
\* end among the pieces.
LoopAt(i, j) ==
    /\ i < j /\ pieces[i] = "for" /\ pieces[j] = "end"
    /\ \A k \in 1..Len(pieces) : pieces[k] \in {"for", "end"} => k \in {i, j}
    /\ \A k \in 1..Len(pieces) : (k < i \/ k > j) => pieces[k] = "a"

\* What the body writes for one item, and whether a break ended it.
RECURSIVE BodyOut(_, _)
BodyOut(ps, item) ==
    IF ps = <<>> THEN [out |-> <<>>, broke |-> FALSE]
    ELSE LET p == Head(ps)
         IN  IF p = "break" \/ (p = "if break" /\ Truth(item))
             THEN [out |-> <<>>, broke |-> TRUE]
             ELSE IF p = "continue" \/ (p = "if continue" /\ Truth(item))
             THEN [out |-> <<>>, broke |-> FALSE]
             ELSE [out |-> (IF p = "a" THEN <<"a">>
                            ELSE IF p = "{{ x }}" THEN escape(to_str(item))
                            ELSE <<>>) \o BodyOut(Tail(ps), item).out,
                   broke |-> BodyOut(Tail(ps), item).broke]

\* What the loop writes for the items in order.
RECURSIVE LoopOut(_, _)
LoopOut(ps, items) ==
    IF items = <<>> THEN <<>>
    ELSE BodyOut(ps, Head(items)).out
         \o (IF BodyOut(ps, Head(items)).broke THEN <<>> ELSE LoopOut(ps, Tail(items)))

\* The items of a str or a list.
RECURSIVE Items(_, _)
Items(t, s) ==
    IF s = <<>> THEN <<>>
    ELSE <<IF t = "str" THEN StrValue(<<Head(s)>>) ELSE Item(Head(s))>> \o Items(t, Tail(s))

\* C17: {% for x in seq %}body{% end %} writes the body once for each item of
\* seq, in order, with x bound to the item; a break that is reached ends the
\* loop at once, a continue ends the body for the item at hand only, and the
\* text after the loop is written in every case.
C17_Loop ==
    \A i, j \in 1..Len(pieces) :
        (outT # NotRendered /\ LoopAt(i, j)
            /\ <<"x", "s">> \in DOMAIN kwargs /\ kwargs[<<"x", "s">>].t \in {"str", "list"})
            => outT = Output([k \in 1..(i - 1) |-> "a"]
                             \o LoopOut(SubSeq(pieces, i + 1, j - 1),
                                        Items(kwargs[<<"x", "s">>].t, kwargs[<<"x", "s">>].s))
                             \o [k \in 1..(Len(pieces) - j) |-> "a"])

\* The loop over 0, 1 and 'b' has written the first item, then the second
\* item, at which the break ended it, and the text after the loop.
C17_Witness ==
    /\ pieces = <<"for", "{{ x }}", "if break", "end", "a">>
    /\ <<"x", "s">> \in DOMAIN kwargs
    /\ kwargs[<<"x", "s">>] = ListValue(<<"0", "1", "b">>)
    /\ outT = Output(<<"0", "1", "a">>)

\* The text of the pieces that are not comments.
RECURSIVE Kept(_)
Kept(ps) ==
    IF ps = <<>> THEN <<>>
    ELSE (IF Head(ps) \in {"comment", "{# a #}"} THEN <<>> ELSE PieceText(Head(ps)))
         \o Kept(Tail(ps))

\* C18: a comment, {# ... #} or {% comment ... %}, writes nothing and takes no
\* end tag: a template of comments and text compiles and renders to the text
\* before and after each comment, unchanged and joined.  Stated of
\* template.py.
C18_CommentErasure ==
    (outT # NotRendered /\ Among({"a", "}", "!", "comment", "{# a #}"}))
        => outT = Output(Kept(pieces))

\* A comment between two texts was rendered, and the two texts are all of the
\* output.
C18_Witness ==
    /\ Len(pieces) = 3
    /\ pieces[1] = "a" /\ pieces[2] = "{# a #}" /\ pieces[3] = "}"
    /\ outT = Output(<<"a", "}">>)

\* The output of text, escaped braces and {{ v }}: an escaped brace gives its
\* two characters without the '!'.
RECURSIVE Literal(_, _, _)
Literal(ps, fn, value) ==
    IF ps = <<>> THEN <<>>
    ELSE (IF Head(ps) \in {"{{!", "{%!", "{#!"} THEN SubSeq(PieceText(Head(ps)), 1, 2)
          ELSE Rendering(<<Head(ps)>>, fn, value))
         \o Literal(Tail(ps), fn, value)

\* C19: {{!, {%! and {#! give the two characters of the brace as text and drop
\* the '!'; no directive is parsed there, so nothing has to close it, and what
\* follows the '!' is read as template text: text stays text, also a '}' or a
\* second '!', and an expression after it is still an expression.
C19_EscapedBraces ==
    (outT # NotRendered /\ Among({"a", "}", "!", "{{!", "{%!", "{#!", "{{ v }}"})
        /\ <<"v">> \in DOMAIN kwargs)
        => outT = Output(Literal(pieces, arg_auto_escape, kwargs[<<"v">>]))

\* An escaped {% with an expression and an escaped {# after it was rendered:
\* the two braces stand around the value of the expression.
C19_Witness ==
    /\ pieces = <<"{%!", "{{ v }}", "{#!">>
    /\ <<"v">> \in DOMAIN kwargs
    /\ arg_auto_escape = NoneStr
    /\ outT = Output(<<"{", "%">> \o to_str(kwargs[<<"v">>]) \o <<"{", "#">>)

\* C20: an opening brace that nothing closes before the end of the text is a
\* parse error: of a text of letters and '{' with two '{' in a row, which
\* holds no closing brace at all, no Template is made and the constructor
\* raises TemplateError.  Stated of templateNG.py.
C20_Unterminated ==
    (tmplNG # NotCompiled /\ Among({"a", "{"})
        /\ \E i \in 1..(Len(pieces) - 1) : pieces[i] = "{" /\ pieces[i + 1] = "{")
        => tmplNG.err = "TemplateError"

\* C21: every operator of the documented syntax is recognized where it is
\* legal: a template of text and the documented directives autoescape,
\* comment, raw, extends and include is not refused for an unknown operator.
\* Stated of template.py.
C21_Operators ==
    (tmplT # NotCompiled
        /\ Among({"a", "raw v", "autoescape None", "autoescape html_escape", "comment",
                  "extends", "include"}))
        => tmplT.msg # "unknown operator"

\* No binding of v anywhere: not in the call, not in the loader's namespace.
Undefined(kw) == <<"v">> \notin DOMAIN kw /\ <<"v">> \notin DOMAIN loader_namespace

\* Compiling a template whose expressions name v succeeds.
C22_Compiles == (tmplT # NotCompiled /\ HasExpression) => tmplT.err = ""

\* The call that leaves v undefined raises NameError and returns no output.
C22_Raises ==
    (GenerateCalls /\ HasExpression /\ Undefined(kwargs')) => outT' = Raised("NameError")

\* A call that binds v, made on the Template after a call that raised,
\* returns the output.
C22_Later ==
    (GenerateCalls /\ outT.err = "NameError" /\ <<"v">> \in DOMAIN kwargs')
        => outT' = Output(Rendering(pieces, Spell("html_escape"), kwargs'[<<"v">>]))

\* C22: a template whose expression names an identifier that nothing defines
\* compiles; the error is raised by the render call whose bindings leave the
\* name undefined, and that call returns no output; a later render call on
\* the same Template with the name bound succeeds.  Stated of template.py.
C22_ErrorLocality == [](C22_Compiles) /\ [][C22_Raises /\ C22_Later]_vars

\* A Template with an expression was compiled and a call without a binding
\* of v has raised NameError.
C22_Witness ==
    /\ HasExpression
    /\ tmplT.err = ""
    /\ Undefined(kwargs)
    /\ outT = Raised("NameError")

\* C23: writing a Properties object p with store() and loading what was
\* written into an empty Properties object gives an object equal to p: load
\* returns, and the entries it has set are those of p, key by key and value
\* by value.
C23_RoundTrip == (loaded # NotLoaded) => loaded = Loaded("", props)

\* The cursor before the i-th consume call of the parse.
Before(i) == IF i = 1 THEN 0 ELSE resT.seen[i - 1].pos

\* C24: over the cursor operations a parse performs, the position never
\* goes back and stays within 0..len(text), and the line number is 1 plus
\* the number of newlines before the position; the parse ends, returning or
\* raising, with the cursor the last operation left.  Stated of template.py.
C24_Cursor ==
    (resT # NotParsed) =>
        /\ \A i \in 1..Len(resT.seen) :
              /\ Before(i) <= resT.seen[i].pos
              /\ resT.seen[i].pos \in 0..Len(text)
              /\ resT.seen[i].line
                    = 1 + Cardinality({k \in 1..resT.seen[i].pos : text[k] = "\n"})
        /\ resT.pos = Before(Len(resT.seen) + 1)
        /\ resT.line = 1 + Cardinality({k \in 1..resT.pos : text[k] = "\n"})

\* A text with a newline in its text and one inside a comment was parsed to
\* its end: the cursor has moved over both, in several operations, and the
\* line number is 3.
C24_Witness ==
    /\ resT.err = ""
    /\ \E i, j \in 1..Len(pieces) : pieces[i] = "\n" /\ pieces[j] = "{#\n#}"
    /\ Len(resT.seen) >= 4
    /\ resT.pos = Len(text)
    /\ resT.line = 3

\* C25: parsing ends for every text: the constructor returns or raises, also
\* for a comment or an expression that nothing closes or that is empty and
\* for a lone '{'.  Stated of templateNG.py.
C25_ParseEnds == (tmplNG # NotCompiled) => tmplNG.err # "<no return>"

\* One if block with arms: the first piece is its if, the last its end, and
\* what lies between is text, elif and else.
OneIf ==
    /\ Len(pieces) >= 2
    /\ pieces[1] = "if" /\ pieces[Len(pieces)] = "end"
    /\ \A i \in 2..(Len(pieces) - 1) : pieces[i] \in {"a", "elif", "else"}

\* C26: the parser takes the arms of an if block in the order if, elif*,
\* else?, end only: an elif or a second else after an else of the same if
\* block is refused by the parser with a TemplateError.  Stated of
\* template.py.
C26_ArmOrder ==
    (resT # NotParsed /\ OneIf
        /\ \E i, j \in 2..(Len(pieces) - 1) :
              i < j /\ pieces[i] = "else" /\ pieces[j] \in {"elif", "else"})
        => resT.err = "TemplateError"

\* The chunks of a compiled Template hold an extends directive.
RECURSIVE Extends(_)
Extends(chunks) ==
    /\ chunks # <<>>
    /\ \/ Head(chunks).k \in {"_ExtendsBlock", "_StatementExtends"}
       \/ Extends(IF "body" \in DOMAIN Head(chunks) THEN Head(chunks).body
                  ELSE Head(chunks).block)
       \/ Extends(Tail(chunks))

C28_LoadReturns == \A t \in Threads : ret[t].err # "KeyError"

C30_LoadEnds == (loaded # NotLoaded) => loaded.err \in {"", "PropertiesError"}

====
